---- MODULE Spec2Model ----
(***************************************************************************)
(* TalkingHead Blender scripts: a model of the scene-walking shape-key     *)
(* scripts (build-extras-from-arkit, build-visemes-from-arkit,             *)
(* build-visemes-from-faceit-phonemes, rename-*-shapekeys) and of the      *)
(* add-on's apply_modifiers routine with its operator.                     *)
(*                                                                         *)
(* Shape-key values and mix weights are kept in hundredths (0.7 is 70).   *)
(* Host operators (bpy.ops.*, key_blocks.get/find, shape_key_add/remove)   *)
(* are modelled by their effect on the object they act on.                 *)
(***************************************************************************)
EXTENDS Integers, Sequences, FiniteSets, TLC

\* Number of objects in the scene of a build or rename run.
NObj == 2

\* Longest initial shape-key list of an object in a rename run.
MaxKeysR == 2

\* Most shape keys of the mesh apply_modifiers works on.
MaxKeys == 3

\* Number of vertices of a mesh before any modifier is applied.
MeshVerts == 8

\* Most bones of an armature in a run of rename-mixamo-bones.
MaxBones == 2

\* Most shape keys of an eyeball before build-avatarsdk-eyes runs.
MaxEyeKeys == 2

\* Most calls of an operator of the add-on in a run.
MaxCalls == 2

\* Longest bone name, in pieces, in a run of rename-mixamo-bones.
MaxNameLen == 3

VARIABLES
  script,     \* which script runs
  override,   \* the build scripts' module-level "override" setting
  objName,    \* scene object -> its name
  parent,     \* scene object -> its parent (0: none)
  okeys,      \* scene object -> its shape keys (<<>>: no shape keys)
  okeys0,     \* okeys when the script started
  objName0,   \* objName when the script started
  vi,         \* position in the sequence of visited objects
  spc         \* position of the script: "root", "walk", "done"

VARIABLES
  aobj,       \* object id -> object: the objects of the view layer
  aobj0,      \* aobj when the operator was called
  selected,   \* ids of the selected objects
  active,     \* id of the active object (context.object), 0: none
  nextId,     \* id the next new object gets
  apc,        \* position in the operator and in apply_modifiers
  am,         \* the locals of apply_modifiers
  ret,        \* what apply_modifiers returned
  opres,      \* the operator's reports and result
  hist,       \* what was called: modifier_apply and join_shapes calls
  odd         \* shapes on which a modifier removes one vertex more

VARIABLES
  bones,      \* scene object -> whether its data has bones, and their names
  bones0      \* bones when the script started

VARIABLES
  OVERRIDE_EXISTING, \* the module-level setting of build-avatarsdk-eyes
  eobjs,      \* names of the objects in bpy.data.objects
  epose,      \* pose bone of the armature -> its transform
  epose0,     \* epose when the script started
  ekeys,      \* eyeball mesh -> its shape keys (<<>>: no shape keys)
  ekeys0,     \* ekeys when the script started
  emods,      \* eyeball mesh -> its modifiers
  epc,        \* position of the script
  ecfg,       \* which configuration bake_eye was called with
  edir,       \* which direction the loop of bake_eye is at
  eactive     \* name of the active object ("none": as the script found it)

VARIABLES
  pbones,     \* the pose bones of the active armature
  pmode,      \* context.mode
  clipboard,  \* window_manager.clipboard
  pcall,      \* the last call of copy_pose or of its operator
  pn          \* number of calls so far

VARIABLES
  sobj,       \* object id -> object, in a run of "Scale character"
  sselected,  \* context.selected_objects
  sactive,    \* id of the active object (0: none)
  scall,      \* the last call of the operator
  sn          \* number of calls so far

VARIABLES
  fobj,       \* object id -> object, in a run of "Fix bone axes"
  fselected,  \* context.selected_objects
  factive,    \* id of the active object (0: none)
  fcall,      \* the last call of an operator
  fn          \* number of calls so far

VARIABLES
  tobj,       \* object id -> object, in a run of "Build ARKit and Oculus"
  tselected,  \* context.selected_objects
  tmodules,   \* sys.modules
  tfiles,     \* the preferences, the file system and the archive
  tcall,      \* the last call of the operator
  tn          \* number of calls so far

sceneVars == <<script, override, objName, parent, okeys, okeys0, objName0, vi, spc>>
applyVars == <<aobj, aobj0, selected, active, nextId, apc, am, ret, opres, hist, odd>>
bonesVars == <<bones, bones0>>
eyeVars == <<OVERRIDE_EXISTING, eobjs, epose, epose0, ekeys, ekeys0, emods, epc, ecfg, edir, eactive>>
copyPoseVars == <<pbones, pmode, clipboard, pcall, pn>>
scaleVars == <<sobj, sselected, sactive, scall, sn>>
fixVars == <<fobj, fselected, factive, fcall, fn>>
targetsVars == <<tobj, tselected, tmodules, tfiles, tcall, tn>>
toolVars == <<bonesVars, eyeVars, copyPoseVars, scaleVars, fixVars, targetsVars>>
notBones == <<eyeVars, copyPoseVars, scaleVars, fixVars, targetsVars>>
notEyes == <<bonesVars, copyPoseVars, scaleVars, fixVars, targetsVars>>
notCopyPose == <<bonesVars, eyeVars, scaleVars, fixVars, targetsVars>>
notScale == <<bonesVars, eyeVars, copyPoseVars, fixVars, targetsVars>>
notFix == <<bonesVars, eyeVars, copyPoseVars, scaleVars, targetsVars>>
notTargets == <<bonesVars, eyeVars, copyPoseVars, scaleVars, fixVars>>
vars == <<sceneVars, applyVars, toolVars>>

\* The variables of rename-mixamo-bones when another script runs.
BonesIdle == bones = <<>> /\ bones0 = <<>>

\* The variables of build-avatarsdk-eyes when another script runs.
EyesIdle ==
  /\ OVERRIDE_EXISTING = TRUE
  /\ eobjs = {} /\ epose = <<>> /\ epose0 = <<>>
  /\ ekeys = <<>> /\ ekeys0 = <<>> /\ emods = <<>>
  /\ epc = "idle" /\ ecfg = 1 /\ edir = 1 /\ eactive = "none"

\* The variables of the "Copy pose" operator when something else runs.
CopyPoseIdle ==
  /\ pbones = <<>> /\ pmode = "idle" /\ clipboard = <<>>
  /\ pcall = [by |-> "none"] /\ pn = 0

\* The variables of the "Scale character" operator when something else runs.
ScaleIdle ==
  /\ sobj = <<>> /\ sselected = <<>> /\ sactive = 0
  /\ scall = [result |-> "none"] /\ sn = 0

\* The variables of the "Fix bone axes" operators when something else runs.
FixIdle ==
  /\ fobj = <<>> /\ fselected = <<>> /\ factive = 0
  /\ fcall = [result |-> "none"] /\ fn = 0

\* The variables of "Build ARKit and Oculus" when something else runs.
TargetsIdle ==
  /\ tobj = <<>> /\ tselected = <<>> /\ tmodules = <<>> /\ tfiles = <<>>
  /\ tcall = [result |-> "none"] /\ tn = 0

OthersIdleBones == EyesIdle /\ CopyPoseIdle /\ ScaleIdle /\ FixIdle /\ TargetsIdle
OthersIdleEyes == BonesIdle /\ CopyPoseIdle /\ ScaleIdle /\ FixIdle /\ TargetsIdle
OthersIdleCopyPose == BonesIdle /\ EyesIdle /\ ScaleIdle /\ FixIdle /\ TargetsIdle
OthersIdleScale == BonesIdle /\ EyesIdle /\ CopyPoseIdle /\ FixIdle /\ TargetsIdle
OthersIdleFix == BonesIdle /\ EyesIdle /\ CopyPoseIdle /\ ScaleIdle /\ TargetsIdle
OthersIdleTargets == BonesIdle /\ EyesIdle /\ CopyPoseIdle /\ ScaleIdle /\ FixIdle

\* The variables of the scripts and operators that are not running.
ToolsIdle ==
  /\ BonesIdle
  /\ EyesIdle
  /\ CopyPoseIdle
  /\ ScaleIdle
  /\ FixIdle
  /\ TargetsIdle

Objs == 1..NObj

----------------------------------------------------------------------------
\* The tables of the scripts.

shapekeysExtras ==
  <<
    [name |-> "mouthOpen", mix |-> <<[name |-> "jawOpen", value |-> 70]>>],
    [name |-> "mouthSmile", mix |-> <<[name |-> "mouthSmileLeft", value |-> 100], [name |-> "mouthSmileRight", value |-> 100]>>],
    [name |-> "eyesClosed", mix |-> <<[name |-> "eyeBlinkLeft", value |-> 100], [name |-> "eyeBlinkRight", value |-> 100]>>],
    [name |-> "eyesLookUp", mix |-> <<[name |-> "eyeLookUpLeft", value |-> 100], [name |-> "eyeLookUpRight", value |-> 100]>>],
    [name |-> "eyesLookDown", mix |-> <<[name |-> "eyeLookDownLeft", value |-> 100], [name |-> "eyeLookDownRight", value |-> 100]>>]
  >>

shapekeysArkit ==
  <<
    [name |-> "viseme_aa", mix |-> <<[name |-> "jawOpen", value |-> 60]>>],
    [name |-> "viseme_E", mix |-> <<[name |-> "mouthPressLeft", value |-> 80], [name |-> "mouthPressRight", value |-> 80], [name |-> "mouthDimpleLeft", value |-> 100], [name |-> "mouthDimpleRight", value |-> 100], [name |-> "jawOpen", value |-> 30]>>],
    [name |-> "viseme_I", mix |-> <<[name |-> "mouthPressLeft", value |-> 60], [name |-> "mouthPressRight", value |-> 60], [name |-> "mouthDimpleLeft", value |-> 60], [name |-> "mouthDimpleRight", value |-> 60], [name |-> "jawOpen", value |-> 20]>>],
    [name |-> "viseme_O", mix |-> <<[name |-> "mouthPucker", value |-> 100], [name |-> "jawForward", value |-> 60], [name |-> "jawOpen", value |-> 20]>>],
    [name |-> "viseme_U", mix |-> <<[name |-> "mouthFunnel", value |-> 100]>>],
    [name |-> "viseme_PP", mix |-> <<[name |-> "mouthRollLower", value |-> 80], [name |-> "mouthRollUpper", value |-> 80], [name |-> "mouthUpperUpLeft", value |-> 30], [name |-> "mouthUpperUpRight", value |-> 30]>>],
    [name |-> "viseme_FF", mix |-> <<[name |-> "mouthPucker", value |-> 100], [name |-> "mouthShrugUpper", value |-> 100], [name |-> "mouthLowerDownLeft", value |-> 20], [name |-> "mouthLowerDownRight", value |-> 20], [name |-> "mouthDimpleLeft", value |-> 100], [name |-> "mouthDimpleRight", value |-> 100], [name |-> "mouthRollLower", value |-> 100]>>],
    [name |-> "viseme_DD", mix |-> <<[name |-> "mouthPressLeft", value |-> 80], [name |-> "mouthPressRight", value |-> 80], [name |-> "mouthFunnel", value |-> 50], [name |-> "jawOpen", value |-> 20]>>],
    [name |-> "viseme_SS", mix |-> <<[name |-> "mouthPressLeft", value |-> 80], [name |-> "mouthPressRight", value |-> 80], [name |-> "mouthLowerDownLeft", value |-> 50], [name |-> "mouthLowerDownRight", value |-> 50], [name |-> "jawOpen", value |-> 10]>>],
    [name |-> "viseme_TH", mix |-> <<[name |-> "mouthRollUpper", value |-> 60], [name |-> "jawOpen", value |-> 20], [name |-> "tongueOut", value |-> 40]>>],
    [name |-> "viseme_CH", mix |-> <<[name |-> "mouthPucker", value |-> 50], [name |-> "jawOpen", value |-> 20]>>],
    [name |-> "viseme_RR", mix |-> <<[name |-> "mouthPucker", value |-> 50], [name |-> "jawOpen", value |-> 20]>>],
    [name |-> "viseme_kk", mix |-> <<[name |-> "mouthLowerDownLeft", value |-> 40], [name |-> "mouthLowerDownRight", value |-> 40], [name |-> "mouthDimpleLeft", value |-> 30], [name |-> "mouthDimpleRight", value |-> 30], [name |-> "mouthFunnel", value |-> 30], [name |-> "mouthPucker", value |-> 30], [name |-> "jawOpen", value |-> 15]>>],
    [name |-> "viseme_nn", mix |-> <<[name |-> "mouthLowerDownLeft", value |-> 40], [name |-> "mouthLowerDownRight", value |-> 40], [name |-> "mouthDimpleLeft", value |-> 30], [name |-> "mouthDimpleRight", value |-> 30], [name |-> "mouthFunnel", value |-> 30], [name |-> "mouthPucker", value |-> 30], [name |-> "jawOpen", value |-> 15], [name |-> "tongueOut", value |-> 20]>>],
    [name |-> "viseme_sil", mix |-> <<>>]
  >>

shapekeysFaceit ==
  <<
    [name |-> "viseme_aa", mix |-> <<[name |-> "aa_02", value |-> 100]>>],
    [name |-> "viseme_E", mix |-> <<[name |-> "ey_eh_uh_04", value |-> 100]>>],
    [name |-> "viseme_I", mix |-> <<[name |-> "y_iy_ih_ix_06", value |-> 100]>>],
    [name |-> "viseme_O", mix |-> <<[name |-> "ow_08", value |-> 100]>>],
    [name |-> "viseme_U", mix |-> <<[name |-> "w_uw_07", value |-> 100]>>],
    [name |-> "viseme_PP", mix |-> <<[name |-> "p_b_m_21", value |-> 100]>>],
    [name |-> "viseme_FF", mix |-> <<[name |-> "f_v_18", value |-> 100]>>],
    [name |-> "viseme_DD", mix |-> <<[name |-> "d_t_n_19", value |-> 100]>>],
    [name |-> "viseme_SS", mix |-> <<[name |-> "s_z_15", value |-> 100]>>],
    [name |-> "viseme_TH", mix |-> <<[name |-> "th_dh_17", value |-> 100]>>],
    [name |-> "viseme_CH", mix |-> <<[name |-> "sh_ch_jh_zh_16", value |-> 100]>>],
    [name |-> "viseme_RR", mix |-> <<[name |-> "r_13", value |-> 100]>>],
    [name |-> "viseme_kk", mix |-> <<[name |-> "k_g_ng_20", value |-> 100]>>],
    [name |-> "viseme_nn", mix |-> <<[name |-> "d_t_n_19", value |-> 100]>>],
    [name |-> "viseme_sil", mix |-> <<>>]
  >>

shapekeyMapAvatarSDK ==
  <<
    <<"sil", "viseme_sil">>,
    <<"PP", "viseme_PP">>,
    <<"FF", "viseme_FF">>,
    <<"TH", "viseme_TH">>,
    <<"DD", "viseme_DD">>,
    <<"kk", "viseme_kk">>,
    <<"CH", "viseme_CH">>,
    <<"SS", "viseme_SS">>,
    <<"nn", "viseme_nn">>,
    <<"RR", "viseme_RR">>,
    <<"aa", "viseme_aa">>,
    <<"E", "viseme_E">>,
    <<"ih", "viseme_I">>,
    <<"oh", "viseme_O">>,
    <<"ou", "viseme_U">>
  >>

shapekeyMapCC4 ==
  <<
    <<"A01_Brow_Inner_Up", "browInnerUp">>,
    <<"A02_Brow_Down_Left", "browDownLeft">>,
    <<"A03_Brow_Down_Right", "browDownRight">>,
    <<"A04_Brow_Outer_Up_Left", "browOuterUpLeft">>,
    <<"A05_Brow_Outer_Up_Right", "browOuterUpRight">>,
    <<"A06_Eye_Look_Up_Left", "eyeLookUpLeft">>,
    <<"A07_Eye_Look_Up_Right", "eyeLookUpRight">>,
    <<"A08_Eye_Look_Down_Left", "eyeLookDownLeft">>,
    <<"A09_Eye_Look_Down_Right", "eyeLookDownRight">>,
    <<"A10_Eye_Look_Out_Left", "eyeLookOutLeft">>,
    <<"A11_Eye_Look_In_Left", "eyeLookInLeft">>,
    <<"A12_Eye_Look_In_Right", "eyeLookInRight">>,
    <<"A13_Eye_Look_Out_Right", "eyeLookOutRight">>,
    <<"A14_Eye_Blink_Left", "eyeBlinkLeft">>,
    <<"A15_Eye_Blink_Right", "eyeBlinkRight">>,
    <<"A16_Eye_Squint_Left", "eyeSquintLeft">>,
    <<"A17_Eye_Squint_Right", "eyeSquintRight">>,
    <<"A18_Eye_Wide_Left", "eyeWideLeft">>,
    <<"A19_Eye_Wide_Right", "eyeWideRight">>,
    <<"A20_Cheek_Puff", "cheekPuff">>,
    <<"A21_Cheek_Squint_Left", "cheekSquintLeft">>,
    <<"A22_Cheek_Squint_Right", "cheekSquintRight">>,
    <<"A23_Nose_Sneer_Left", "noseSneerLeft">>,
    <<"A24_Nose_Sneer_Right", "noseSneerRight">>,
    <<"A25_Jaw_Open", "jawOpen">>,
    <<"A26_Jaw_Forward", "jawForward">>,
    <<"A27_Jaw_Left", "jawLeft">>,
    <<"A28_Jaw_Right", "jawRight">>,
    <<"A29_Mouth_Funnel", "mouthFunnel">>,
    <<"A30_Mouth_Pucker", "mouthPucker">>,
    <<"A31_Mouth_Left", "mouthLeft">>,
    <<"A32_Mouth_Right", "mouthRight">>,
    <<"A33_Mouth_Roll_Upper", "mouthRollUpper">>,
    <<"A34_Mouth_Roll_Lower", "mouthRollLower">>,
    <<"A35_Mouth_Shrug_Upper", "mouthShrugUpper">>,
    <<"A36_Mouth_Shrug_Lower", "mouthShrugLower">>,
    <<"A37_Mouth_Close", "mouthClose">>,
    <<"A38_Mouth_Smile_Left", "mouthSmileLeft">>,
    <<"A39_Mouth_Smile_Right", "mouthSmileRight">>,
    <<"A40_Mouth_Frown_Left", "mouthFrownLeft">>,
    <<"A41_Mouth_Frown_Right", "mouthFrownRight">>,
    <<"A42_Mouth_Dimple_Left", "mouthDimpleLeft">>,
    <<"A43_Mouth_Dimple_Right", "mouthDimpleRight">>,
    <<"A44_Mouth_Upper_Up_Left", "mouthUpperUpLeft">>,
    <<"A45_Mouth_Upper_Up_Right", "mouthUpperUpRight">>,
    <<"A46_Mouth_Lower_Down_Left", "mouthLowerDownLeft">>,
    <<"A47_Mouth_Lower_Down_Right", "mouthLowerDownRight">>,
    <<"A48_Mouth_Press_Left", "mouthPressLeft">>,
    <<"A49_Mouth_Press_Right", "mouthPressRight">>,
    <<"A50_Mouth_Stretch_Left", "mouthStretchLeft">>,
    <<"A51_Mouth_Stretch_Right", "mouthStretchRight">>
  >>

shapekeyMapRocketbox ==
  <<
    <<"AA_VI_00_Sil", "viseme_sil">>,
    <<"AA_VI_01_PP", "viseme_PP">>,
    <<"AA_VI_02_FF", "viseme_FF">>,
    <<"AA_VI_03_TH", "viseme_TH">>,
    <<"AA_VI_04_DD", "viseme_DD">>,
    <<"AA_VI_05_KK", "viseme_kk">>,
    <<"AA_VI_06_CH", "viseme_CH">>,
    <<"AA_VI_07_SS", "viseme_SS">>,
    <<"AA_VI_08_nn", "viseme_nn">>,
    <<"AA_VI_09_RR", "viseme_RR">>,
    <<"AA_VI_10_aa", "viseme_aa">>,
    <<"AA_VI_11_E", "viseme_E">>,
    <<"AA_VI_12_I", "viseme_I">>,
    <<"AA_VI_13_O", "viseme_O">>,
    <<"AA_VI_14_U", "viseme_U">>,
    <<"AK_01_BrowDownLeft", "browDownLeft">>,
    <<"AK_02_BrowDownRight", "browDownRight">>,
    <<"AK_03_BrowInnerUp", "browInnerUp">>,
    <<"AK_04_BrowOuterUpLeft", "browOuterUpLeft">>,
    <<"AK_05_BrowOuterUpRight", "browOuterUpRight">>,
    <<"AK_06_CheekPuff", "cheekPuff">>,
    <<"AK_07_CheekSquintLeft", "cheekSquintLeft">>,
    <<"AK_08_CheekSquintRight", "cheekSquintRight">>,
    <<"AK_09_EyeBlinkLeft", "eyeBlinkLeft">>,
    <<"AK_10_EyeBlinkRight", "eyeBlinkRight">>,
    <<"AK_11_EyeLookDownLeft", "eyeLookDownLeft">>,
    <<"AK_12_EyeLookDownRight", "eyeLookDownRight">>,
    <<"AK_13_EyeLookInLeft", "eyeLookInLeft">>,
    <<"AK_14_EyeLookInRight", "eyeLookInRight">>,
    <<"AK_15_EyeLookOutLeft", "eyeLookOutLeft">>,
    <<"AK_16_EyeLookOutRight", "eyeLookOutRight">>,
    <<"AK_17_EyeLookUpLeft", "eyeLookUpLeft">>,
    <<"AK_18_EyeLookUpRight", "eyeLookUpRight">>,
    <<"AK_19_EyeSquintLeft", "eyeSquintLeft">>,
    <<"AK_20_EyeSquintRight", "eyeSquintRight">>,
    <<"AK_21_EyeWideLeft", "eyeWideLeft">>,
    <<"AK_22_EyeWideRight", "eyeWideRight">>,
    <<"AK_23_JawForward", "jawForward">>,
    <<"AK_24_JawLeft", "jawLeft">>,
    <<"AK_25_JawOpen", "jawOpen">>,
    <<"AK_26_JawRight", "jawRight">>,
    <<"AK_27_MouthClose", "mouthClose">>,
    <<"AK_28_MouthDimpleLeft", "mouthDimpleLeft">>,
    <<"AK_29_MouthDimpleRight", "mouthDimpleRight">>,
    <<"AK_30_MouthFrownLeft", "mouthFrownLeft">>,
    <<"AK_31_MouthFrownRight", "mouthFrownRight">>,
    <<"AK_32_MouthFunnel", "mouthFunnel">>,
    <<"AK_33_MouthLeft", "mouthLeft">>,
    <<"AK_34_MouthLowerDownLeft", "mouthLowerDownLeft">>,
    <<"AK_35_MouthLowerDownRight", "mouthLowerDownRight">>,
    <<"AK_36_MouthPressLeft", "mouthPressLeft">>,
    <<"AK_37_MouthPressRight", "mouthPressRight">>,
    <<"AK_38_MouthPucker", "mouthPucker">>,
    <<"AK_39_MouthRight", "mouthRight">>,
    <<"AK_40_MouthRollLower", "mouthRollLower">>,
    <<"AK_41_MouthRollUpper", "mouthRollUpper">>,
    <<"AK_42_MouthShrugLower", "mouthShrugLower">>,
    <<"AK_43_MouthShrugUpper", "mouthShrugUpper">>,
    <<"AK_44_MouthSmileLeft", "mouthSmileLeft">>,
    <<"AK_45_MouthSmileRight", "mouthSmileRight">>,
    <<"AK_46_MouthStretchLeft", "mouthStretchLeft">>,
    <<"AK_47_MouthStretchRight", "mouthStretchRight">>,
    <<"AK_48_MouthUpperUpLeft", "mouthUpperUpLeft">>,
    <<"AK_49_MouthUpperUpRight", "mouthUpperUpRight">>,
    <<"AK_50_NoseSneerLeft", "noseSneerLeft">>,
    <<"AK_51_NoseSneerRight", "noseSneerRight">>,
    <<"AK_52_TongueOut", "tongueOut">>
  >>

shapekeyMapTomcat ==
  <<
    <<"vrc.v_sil", "viseme_sil">>,
    <<"vrc.v_pp", "viseme_PP">>,
    <<"vrc.v_ff", "viseme_FF">>,
    <<"vrc.v_th", "viseme_TH">>,
    <<"vrc.v_dd", "viseme_DD">>,
    <<"vrc.v_kk", "viseme_kk">>,
    <<"vrc.v_ch", "viseme_CH">>,
    <<"vrc.v_ss", "viseme_SS">>,
    <<"vrc.v_nn", "viseme_nn">>,
    <<"vrc.v_rr", "viseme_RR">>,
    <<"vrc.v_aa", "viseme_aa">>,
    <<"vrc.v_ee", "viseme_E">>,
    <<"vrc.v_ih", "viseme_I">>,
    <<"vrc.v_oh", "viseme_O">>,
    <<"vrc.v_ou", "viseme_U">>
  >>

----------------------------------------------------------------------------
\* Scene walk shared by the scripts.

BuildScripts == {"extras", "arkit", "faceit"}
RenameScripts == {"avatarsdk", "cc4", "rocketbox", "tomcat"}

\* The "shapekeys" list of a build script.
ShapekeysOf(s) ==
  IF s = "extras" THEN shapekeysExtras
  ELSE IF s = "arkit" THEN shapekeysArkit
  ELSE shapekeysFaceit

\* The "shapekeyMap" list of a rename script.
ShapekeyMapOf(s) ==
  IF s = "avatarsdk" THEN shapekeyMapAvatarSDK
  ELSE IF s = "cc4" THEN shapekeyMapCC4
  ELSE IF s = "rocketbox" THEN shapekeyMapRocketbox
  ELSE shapekeyMapTomcat

RECURSIVE traverse(_, _), ChildrenFrom(_, _, _)
\* traverse(x): x, then the traversal of each child of x.
traverse(par, x) == <<x>> \o ChildrenFrom(par, x, 1)

\* The traversals of the children of x numbered c or more, in order.
ChildrenFrom(par, x, c) ==
  IF c > NObj THEN <<>>
  ELSE (IF par[c] = x THEN traverse(par, c) ELSE <<>>) \o ChildrenFrom(par, x, c + 1)

RECURSIVE VisitsFrom(_, _)
\* "for r in scene.objects: for o in traverse(r)": every scene object is a
\* start of a traversal, so an object with ancestors is visited once per
\* ancestor and once for itself.
VisitsFrom(par, r) ==
  IF r > NObj THEN <<>> ELSE traverse(par, r) \o VisitsFrom(par, r + 1)

Visits == VisitsFrom(parent, 1)

\* hasShapekeys(o): the object has a shape-key datablock with key blocks.
hasShapekeys(o) == okeys[o] /= <<>>

\* keys.get(name) is not None
HasKey(keys, n) == \E i \in 1..Len(keys) : keys[i].name = n

\* keys.find(name): the index of the first key with that name, 0 for -1.
Find(keys, n) ==
  IF HasKey(keys, n)
  THEN CHOOSE i \in 1..Len(keys) :
         keys[i].name = n /\ \A j \in 1..(i - 1) : keys[j].name /= n
  ELSE 0

----------------------------------------------------------------------------
\* The build scripts.

\* o.shape_key_remove(keys.get(name))
RemoveKey(keys, n) ==
  LET idx == Find(keys, n)
  IN SubSeq(keys, 1, idx - 1) \o SubSeq(keys, idx + 1, Len(keys))

OverrideRemoves_AnyMode(ov, keys, n) == HasKey(keys, n)

\* "if override: if not keys.get(name) is None"
OverrideRemoves(ov, keys, n) == ov /\ HasKey(keys, n)

SomeComponent_FirstOnly(keys, mix) == Len(mix) > 0 /\ HasKey(keys, mix[1].name)

\* "for m in mix: if not keys.get(m["name"]) is None": some component exists.
SomeComponent(keys, mix) == \E j \in 1..Len(mix) : HasKey(keys, mix[j].name)

ResetAll_Nothing(keys) == keys

\* "for k in keys: k.value = 0"
ResetAll(keys) == [i \in 1..Len(keys) |-> [keys[i] EXCEPT !.value = 0]]

\* keys.get(n).value = v
SetValue(keys, n, v) == [keys EXCEPT ![Find(keys, n)].value = v]

RECURSIVE ApplyMix(_, _, _)
\* "for m in mix: if not keys.get(m["name"]) is None: keys.get(m["name"]).value = m["value"]"
ApplyMix(keys, mix, j) ==
  IF j > Len(mix) THEN keys
  ELSE ApplyMix(IF HasKey(keys, mix[j].name)
                THEN SetValue(keys, mix[j].name, mix[j].value)
                ELSE keys, mix, j + 1)

\* The values of the object's shape keys, by name.
MixOf(keys) == {<<keys[i].name, keys[i].value>> : i \in 1..Len(keys)}

\* o.shape_key_add(name=name, from_mix=True): a new key at the end, value 0,
\* whose shape is the current mix of the object's keys.
ShapeKeyAddFromMix(keys, n) ==
  Append(keys, [name |-> n, value |-> 0, orig |-> 0, mix |-> MixOf(keys)])

\* One iteration of "for b in shapekeys" on the keys of one object.
BuildOne(keys, b, ov) ==
  LET k1 == IF OverrideRemoves(ov, keys, b.name) THEN RemoveKey(keys, b.name) ELSE keys
  IN IF ~HasKey(k1, b.name) /\ SomeComponent(k1, b.mix)
     THEN ResetAll(ShapeKeyAddFromMix(ApplyMix(ResetAll(k1), b.mix, 1), b.name))
     ELSE k1

RECURSIVE BuildAll(_, _, _, _)
\* "for b in shapekeys", from entry j on.
BuildAll(keys, tbl, ov, j) ==
  IF j > Len(tbl) THEN keys
  ELSE BuildAll(BuildOne(keys, tbl[j], ov), tbl, ov, j + 1)

\* A visited object with shape keys: build its missing blend shapes.
BuildVisit ==
  /\ script \in BuildScripts
  /\ spc = "walk"
  /\ vi <= Len(Visits)
  /\ hasShapekeys(Visits[vi])
  /\ okeys' = [okeys EXCEPT ![Visits[vi]] = BuildAll(okeys[Visits[vi]], ShapekeysOf(script), override, 1)]
  /\ vi' = vi + 1
  /\ UNCHANGED <<script, override, objName, parent, okeys0, objName0, spc>>
  /\ UNCHANGED <<applyVars, toolVars>>

\* A visited object without shape keys is passed over.
SkipVisit ==
  /\ spc = "walk"
  /\ vi <= Len(Visits)
  /\ ~hasShapekeys(Visits[vi])
  /\ vi' = vi + 1
  /\ UNCHANGED <<script, override, objName, parent, okeys, okeys0, objName0, spc>>
  /\ UNCHANGED <<applyVars, toolVars>>

\* The walk is over: the script ends.
WalkDone ==
  /\ spc = "walk"
  /\ vi > Len(Visits)
  /\ spc' = "done"
  /\ UNCHANGED <<script, override, objName, parent, okeys, okeys0, objName0, vi>>
  /\ UNCHANGED <<applyVars, toolVars>>

----------------------------------------------------------------------------
\* The rename scripts.

RenameOne_First(keys, m) ==
  IF Find(keys, m[1]) /= 0 THEN [keys EXCEPT ![1].name = m[2]] ELSE keys

RenameOne_Moves(keys, m) ==
  LET idx == Find(keys, m[1])
  IN IF idx /= 0
     THEN Append(SubSeq(keys, 1, idx - 1) \o SubSeq(keys, idx + 1, Len(keys)),
                 [keys[idx] EXCEPT !.name = m[2]])
     ELSE keys

\* "idx = keys.find(m[0]); if idx != -1: keys[idx].name = m[1]"
RenameOne(keys, m) ==
  LET idx == Find(keys, m[1])
  IN IF idx /= 0 THEN [keys EXCEPT ![idx].name = m[2]] ELSE keys

RECURSIVE RenameAll(_, _, _)
\* "for m in shapekeyMap", from entry j on: an entry either leaves the keys
\* as they are or renames one, and the next entry works on the result.
RenameAll(keys, map, j) ==
  IF j > Len(map) THEN keys
  ELSE LET renamed == RenameOne(keys, map[j])
       IN IF renamed = keys
          THEN RenameAll(keys, map, j + 1)
          ELSE RenameAll(renamed, map, j + 1)

\* scene.objects.find("AvatarRoot"): the object of that name, 0 for -1.
FindObject(n) ==
  IF \E o \in Objs : objName[o] = n
  THEN CHOOSE o \in Objs : objName[o] = n
  ELSE 0

\* rename-avatarsdk-shapekeys only: the object "AvatarRoot" becomes "Armature".
RenameRoot ==
  /\ script = "avatarsdk"
  /\ spc = "root"
  /\ LET idx == FindObject(<<"AvatarRoot", 0>>)
     IN objName' = IF idx /= 0 THEN [objName EXCEPT ![idx] = <<"Armature", 0>>] ELSE objName
  /\ spc' = "walk"
  /\ UNCHANGED <<script, override, parent, okeys, okeys0, objName0, vi>>
  /\ UNCHANGED <<applyVars, toolVars>>

\* A visited object with shape keys: rename its mapped keys.
RenameVisit ==
  /\ script \in RenameScripts
  /\ spc = "walk"
  /\ vi <= Len(Visits)
  /\ hasShapekeys(Visits[vi])
  /\ okeys' = [okeys EXCEPT ![Visits[vi]] = RenameAll(okeys[Visits[vi]], ShapekeyMapOf(script), 1)]
  /\ vi' = vi + 1
  /\ UNCHANGED <<script, override, objName, parent, okeys0, objName0, spc>>
  /\ UNCHANGED <<applyVars, toolVars>>

----------------------------------------------------------------------------
\* The add-on's "Apply modifiers" operator and apply_modifiers.
\*
\* An object is a record: its name (a base name and the number of its
\* ".001" suffix), its type, the number of vertices of its mesh, the shape
\* its mesh holds (0: the basis, i: shape key i of the original), its
\* modifier stack, its shape keys and its active shape key index.  A shape
\* key's relative_key is the position of that key in the same list.

\* What a key made by the host starts with.
DefaultKey(n, s) ==
  [name |-> n, mute |-> FALSE, interpolation |-> "KEY_LINEAR",
   slider_min |-> 0, slider_max |-> 100, value |-> 0, vertex_group |-> "",
   relative_key |-> 1, shape |-> s]

\* The vertices a modifier removes from a mesh holding shape s.
Cut(s) == IF s \in odd THEN 2 ELSE 1

HasModifier(o, n) == \E j \in 1..Len(o.mods) : o.mods[j].name = n

\* bpy.ops.object.modifier_apply(modifier=n) succeeds on the active object o:
\* the host refuses a mesh with shape keys and a name the object does not have.
CanApply(o, n) == o.keys = <<>> /\ HasModifier(o, n)

\* bpy.ops.object.modifier_apply(modifier=n): the modifier leaves the stack
\* and the mesh takes the modified geometry.
ModifierApply(o, n) ==
  LET j == CHOOSE j \in 1..Len(o.mods) :
             o.mods[j].name = n /\ \A k \in 1..(j - 1) : o.mods[k].name /= n
  IN [o EXCEPT !.mods = SubSeq(o.mods, 1, j - 1) \o SubSeq(o.mods, j + 1, Len(o.mods)),
               !.verts = o.verts - Cut(o.shape)]

RECURSIVE ApplySelected(_, _, _)
\* "for modifierName in selectedModifiers: bpy.ops.object.modifier_apply(...)"
\* from name j on: the object afterwards, how many were applied, and whether
\* every call succeeded (a failing call raises).
ApplySelected(o, names, j) ==
  IF j > Len(names) THEN [obj |-> o, n |-> j - 1, ok |-> TRUE]
  ELSE IF ~CanApply(o, names[j]) THEN [obj |-> o, n |-> j - 1, ok |-> FALSE]
  ELSE ApplySelected(ModifierApply(o, names[j]), names, j + 1)

\* The modifier_apply calls that succeeded, as <<object id, modifier name>>.
AppliedLog(id, names, n) == [k \in 1..n |-> <<id, names[k]>>]

\* "kw in mod.name.lower()": which modifier names hold which keyword.
KeywordIn(kw, n) ==
  <<kw, n>> \in {<<"delete", "Delete helpers">>, <<"delete", "Delete mirror">>,
                 <<"hide helpers", "Hide helpers">>}

\* find_modifier_names(obj, keywords)
find_modifier_names(o, keywords) ==
  IF o.type /= "MESH" THEN <<>>
  ELSE LET names == [j \in 1..Len(o.mods) |-> o.mods[j].name]
       IN SelectSeq(names, LAMBDA n : \E kw \in keywords : KeywordIn(kw, n))

\* The name the host gives a duplicate: the base name with the first free
\* number.
DupName(objs, n) ==
  <<n[1], CHOOSE k \in 1..(Cardinality(DOMAIN objs) + 1) :
            /\ \A o \in DOMAIN objs : objs[o].name /= <<n[1], k>>
            /\ \A m \in 1..(k - 1) : \E o \in DOMAIN objs : objs[o].name = <<n[1], m>> >>

\* bpy.ops.object.duplicate_move(...) with the one object src selected: a
\* full copy under a new id.
Duplicate(objs, src, id) ==
  [o \in DOMAIN objs \cup {id} |->
     IF o = id THEN [objs[src] EXCEPT !.name = DupName(objs, objs[src].name)]
     ELSE objs[o]]

Delete_Nothing(objs, sel) == objs

\* bpy.ops.object.delete(use_global=False) and bpy.data.meshes.remove(mesh):
\* the selected objects are gone.
Delete(objs, sel) == [o \in DOMAIN objs \ sel |-> objs[o]]

\* bpy.ops.object.shape_key_remove(all=True)
ShapeKeyRemoveAll(o) == [o EXCEPT !.keys = <<>>, !.aski = 0]

\* bpy.ops.object.shape_key_remove(): the active key goes; when it was the
\* first one the next key becomes the basis and the mesh takes its shape.
ShapeKeyRemoveActive(o) ==
  LET k == o.aski + 1
      rest == SubSeq(o.keys, 1, k - 1) \o SubSeq(o.keys, k + 1, Len(o.keys))
  IN IF k > Len(o.keys) THEN o
     ELSE [o EXCEPT !.keys = rest,
                    !.shape = IF k = 1 /\ rest /= <<>> THEN rest[1].shape ELSE o.shape,
                    !.aski = 0]

\* bpy.ops.object.shape_key_add(from_mix=False): the first key of a mesh is
\* its "Basis".
ShapeKeyAdd(o) ==
  [o EXCEPT !.keys = Append(o.keys, DefaultKey(<<IF o.keys = <<>> THEN "Basis" ELSE "Key", Len(o.keys)>>, o.shape))]

\* bpy.ops.object.shape_key_transfer(): the active object gets a basis if it
\* has no keys, and a copy of the active shape key of the other object.
ShapeKeyTransfer(dst, src) ==
  LET based == IF dst.keys = <<>> THEN ShapeKeyAdd(dst) ELSE dst
      key == [src.keys[src.aski + 1] EXCEPT !.relative_key = 1]
  IN [based EXCEPT !.keys = Append(based.keys, key), !.aski = Len(based.keys)]

\* bpy.ops.object.join_shapes(): the active object gets one key per other
\* selected mesh with as many vertices as it has, named after that mesh.
JoinShapes(dst, src) ==
  IF src.verts = dst.verts
  THEN [dst EXCEPT !.keys = Append(dst.keys, DefaultKey(src.name, src.shape))]
  ELSE dst

\* The list "properties" of one key, as the save loop stores them.
SavedProperties(keys, i) ==
  [name |-> keys[i].name, mute |-> keys[i].mute,
   interpolation |-> keys[i].interpolation,
   relative_key |-> keys[keys[i].relative_key].name,
   slider_max |-> keys[i].slider_max, slider_min |-> keys[i].slider_min,
   value |-> keys[i].value, vertex_group |-> keys[i].vertex_group]

\* "key_b.name = list_properties[i]["name"]" for every i.
RestoreNames(keys, props) ==
  [i \in 1..Len(keys) |->
     IF i <= Len(props) THEN [keys[i] EXCEPT !.name = props[i].name] ELSE keys[i]]

\* "for j in range(0, shapesCount): if rel_key == key_brel.name: ...; break":
\* the position of the first key of that name, or the relative key as it is.
FindRelative(keys, n, rel, cur) ==
  IF \E j \in 1..n : keys[j].name = rel
  THEN CHOOSE j \in 1..n : keys[j].name = rel /\ \A k \in 1..(j - 1) : keys[k].name /= rel
  ELSE cur

RestoreKey_NoValue(key, p, rel) ==
  [key EXCEPT !.interpolation = p.interpolation, !.mute = p.mute,
              !.slider_max = p.slider_max, !.slider_min = p.slider_min,
              !.vertex_group = p.vertex_group, !.relative_key = rel]

\* The second restore loop's body for one key.
RestoreKey(key, p, rel) ==
  [key EXCEPT !.interpolation = p.interpolation, !.mute = p.mute,
              !.slider_max = p.slider_max, !.slider_min = p.slider_min,
              !.value = p.value, !.vertex_group = p.vertex_group,
              !.relative_key = rel]

\* The second restore loop: the names are all restored before it runs.
RestoreProperties(keys, props) ==
  [i \in 1..Len(keys) |->
     IF i <= Len(props)
     THEN RestoreKey(keys[i], props[i],
                     FindRelative(keys, Len(props), props[i].relative_key, keys[i].relative_key))
     ELSE keys[i]]

VertsDiffer_Never(vertCount, n) == FALSE

\* "if vertCount != len(tmpObject.data.vertices)"
VertsDiffer(vertCount, n) == vertCount /= n

errorInfo == "Shape keys ended up with different number of vertices!"
errorInfoHint == "Shape keys ended up with different number of vertices! Hint: mirror with 'Merge'"

\* apply_modifiers raised: the operator ends without a result.
Raise ==
  /\ apc' = "raised"
  /\ ret' = [status |-> "raised", ok |-> FALSE, info |-> "exception"]

\* apply_modifiers returns (ok, info) to the operator.
Return(ok, info) ==
  /\ apc' = "op_finish"
  /\ ret' = [status |-> "returned", ok |-> ok, info |-> info]

\* The object named by the operator's "selected[0]".
Selected0 == CHOOSE o \in selected : TRUE

Report(level, msg) == Append(opres.reports, <<level, msg>>)

\* OPERATIONS_OT_apply_modifiers.execute up to the call of apply_modifiers.
OpExecute ==
  /\ apc = "op"
  /\ IF Cardinality(selected) /= 1 \/ aobj[Selected0].type /= "MESH"
     THEN /\ opres' = [reports |-> Report("ERROR", "Select only one mesh object"),
                       result |-> "CANCELLED"]
          /\ apc' = "done"
          /\ UNCHANGED <<am, hist>>
     ELSE LET modifiers == find_modifier_names(aobj[Selected0], {"delete", "hide helpers"})
          IN IF modifiers = <<>>
             THEN /\ opres' = [reports |-> Report("ERROR", "The mesh has no 'delete' or 'hide helpers' modifiers"),
                               result |-> "CANCELLED"]
                  /\ apc' = "done"
                  /\ UNCHANGED <<am, hist>>
             ELSE /\ opres' = [opres EXCEPT !.reports = Report("INFO", "Started applying modifiers...")]
                  /\ am' = [am EXCEPT !.selectedModifiers = modifiers]
                  /\ hist' = [hist EXCEPT !.searched = Selected0]
                  /\ apc' = "am_inspect"
  /\ UNCHANGED <<aobj, aobj0, selected, active, nextId, ret, odd>>
  /\ UNCHANGED <<sceneVars, toolVars>>

\* apply_modifiers: look for a selected mirror modifier with merge, and
\* disable the armature modifiers that are not selected.
AM_Inspect ==
  /\ apc = "am_inspect"
  /\ LET mods == aobj[active].mods
         off == {j \in 1..Len(mods) :
                   /\ mods[j].name \notin {am.selectedModifiers[k] : k \in 1..Len(am.selectedModifiers)}
                   /\ mods[j].type = "ARMATURE" /\ mods[j].show_viewport}
     IN /\ am' = [am EXCEPT
                    !.contains_mirror_with_merge =
                       \E j \in 1..Len(mods) :
                         /\ mods[j].name \in {am.selectedModifiers[k] : k \in 1..Len(am.selectedModifiers)}
                         /\ mods[j].type = "MIRROR" /\ mods[j].use_mirror_merge,
                    !.disabled_armature_modifiers =
                       SelectSeq([j \in 1..Len(mods) |-> mods[j].name],
                                 LAMBDA n : \E j \in off : mods[j].name = n),
                    !.disabled_on = active]
        /\ aobj' = [aobj EXCEPT ![active].mods =
                      [j \in 1..Len(mods) |->
                         IF j \in off THEN [mods[j] EXCEPT !.show_viewport = FALSE] ELSE mods[j]]]
  /\ apc' = "am_count"
  /\ UNCHANGED <<aobj0, selected, active, nextId, ret, opres, hist, odd>>
  /\ UNCHANGED <<sceneVars, toolVars>>

\* apply_modifiers: count the shape keys; without any, just apply the
\* modifiers and return.
AM_Count ==
  /\ apc = "am_count"
  /\ IF aobj[active].type /= "MESH"
     THEN Raise /\ UNCHANGED <<aobj, am, hist>>
     ELSE IF Len(aobj[active].keys) = 0
     THEN LET r == ApplySelected(aobj[active], am.selectedModifiers, 1)
          IN /\ aobj' = [aobj EXCEPT ![active] = r.obj]
             /\ hist' = [hist EXCEPT !.applied = @ \o AppliedLog(active, am.selectedModifiers, r.n)]
             /\ am' = am
             /\ IF r.ok THEN Return(TRUE, "None") ELSE Raise
     ELSE /\ am' = [am EXCEPT !.shapesCount = Len(aobj[active].keys)]
          /\ apc' = "am_copy"
          /\ UNCHANGED <<aobj, ret, hist>>
  /\ UNCHANGED <<aobj0, selected, active, nextId, opres, odd>>
  /\ UNCHANGED <<sceneVars, toolVars>>

\* apply_modifiers: the active object is the original; a copy of it keeps
\* all the shape keys.
AM_Copy ==
  /\ apc = "am_copy"
  /\ aobj' = Duplicate(aobj, active, nextId)
  /\ nextId' = nextId + 1
  /\ am' = [am EXCEPT !.originalObject = active, !.copyObject = nextId]
  /\ selected' = {active}
  /\ apc' = "am_save"
  /\ UNCHANGED <<aobj0, active, ret, opres, hist, odd>>
  /\ UNCHANGED <<sceneVars, toolVars>>

\* apply_modifiers: save the properties of the original's shape keys.
AM_Save ==
  /\ apc = "am_save"
  /\ am' = [am EXCEPT !.list_properties =
              [i \in 1..am.shapesCount |-> SavedProperties(aobj[am.originalObject].keys, i)]]
  /\ apc' = "base_remove"
  /\ UNCHANGED <<aobj, aobj0, selected, active, nextId, ret, opres, hist, odd>>
  /\ UNCHANGED <<sceneVars, toolVars>>

\* Base shape: remove all shape keys of the original.
BaseRemoveKeys ==
  /\ apc = "base_remove"
  /\ aobj' = [aobj EXCEPT ![active] = ShapeKeyRemoveAll(@)]
  /\ apc' = "base_apply"
  /\ UNCHANGED <<aobj0, selected, active, nextId, am, ret, opres, hist, odd>>
  /\ UNCHANGED <<sceneVars, toolVars>>

\* Base shape: apply the selected modifiers and take the vertex count.
BaseApplyModifiers ==
  /\ apc = "base_apply"
  /\ LET r == ApplySelected(aobj[active], am.selectedModifiers, 1)
     IN /\ aobj' = [aobj EXCEPT ![active] = r.obj]
        /\ hist' = [hist EXCEPT !.applied = @ \o AppliedLog(active, am.selectedModifiers, r.n)]
        /\ IF r.ok
           THEN /\ am' = [am EXCEPT !.vertCount = aobj'[am.originalObject].verts]
                /\ apc' = "base_add"
                /\ UNCHANGED ret
           ELSE Raise /\ UNCHANGED am
  /\ UNCHANGED <<aobj0, selected, active, nextId, opres, odd>>
  /\ UNCHANGED <<sceneVars, toolVars>>

\* Base shape: a fresh basis key; the original is deselected.
BaseAddBasis ==
  /\ apc = "base_add"
  /\ aobj' = [aobj EXCEPT ![active] = ShapeKeyAdd(@)]
  /\ selected' = selected \ {am.originalObject}
  /\ am' = [am EXCEPT !.i = 1]
  /\ apc' = "loop"
  /\ UNCHANGED <<aobj0, active, nextId, ret, opres, hist, odd>>
  /\ UNCHANGED <<sceneVars, toolVars>>

\* Shape key i: duplicate the copy into a temporary object and remove the
\* temporary's shape keys.
KeyDuplicate ==
  /\ apc = "loop"
  /\ am.i < am.shapesCount
  /\ aobj' = [Duplicate(aobj, am.copyObject, nextId) EXCEPT ![nextId] = ShapeKeyRemoveAll(@)]
  /\ nextId' = nextId + 1
  /\ active' = nextId
  /\ selected' = {nextId}
  /\ am' = [am EXCEPT !.tmpObject = nextId]
  /\ apc' = "key_transfer"
  /\ UNCHANGED <<aobj0, ret, opres, hist, odd>>
  /\ UNCHANGED <<sceneVars, toolVars>>

\* Shape key i: transfer it from the copy to the temporary object and make
\* it the temporary's mesh.
KeyTransfer ==
  /\ apc = "key_transfer"
  /\ LET src == [aobj[am.copyObject] EXCEPT !.aski = am.i]
         got == ShapeKeyTransfer(aobj[active], src)
         first == ShapeKeyRemoveActive([got EXCEPT !.aski = 0])
     IN aobj' = [aobj EXCEPT ![am.copyObject] = src, ![active] = ShapeKeyRemoveAll(first)]
  /\ selected' = selected \cup {am.copyObject}
  /\ apc' = "key_apply"
  /\ UNCHANGED <<aobj0, active, nextId, am, ret, opres, hist, odd>>
  /\ UNCHANGED <<sceneVars, toolVars>>

\* Shape key i: apply the selected modifiers to the temporary object.
KeyApply ==
  /\ apc = "key_apply"
  /\ LET r == ApplySelected(aobj[active], am.selectedModifiers, 1)
     IN /\ aobj' = [aobj EXCEPT ![active] = r.obj]
        /\ hist' = [hist EXCEPT !.applied = @ \o AppliedLog(active, am.selectedModifiers, r.n)]
        /\ IF r.ok THEN apc' = "key_verify" /\ UNCHANGED ret ELSE Raise
  /\ UNCHANGED <<aobj0, selected, active, nextId, am, opres, odd>>
  /\ UNCHANGED <<sceneVars, toolVars>>

\* Shape key i: verify the number of vertices; a difference ends
\* apply_modifiers with (False, errorInfo).
KeyVerify ==
  /\ apc = "key_verify"
  /\ IF VertsDiffer(am.vertCount, aobj[am.tmpObject].verts)
     THEN Return(FALSE, IF am.contains_mirror_with_merge THEN errorInfoHint ELSE errorInfo)
     ELSE apc' = "key_join" /\ UNCHANGED ret
  /\ UNCHANGED <<aobj, aobj0, selected, active, nextId, am, opres, hist, odd>>
  /\ UNCHANGED <<sceneVars, toolVars>>

\* Shape key i: join the temporary object's shape into the original.
KeyJoin ==
  /\ apc = "key_join"
  /\ aobj' = [aobj EXCEPT ![am.originalObject] = JoinShapes(@, aobj[am.tmpObject])]
  /\ hist' = [hist EXCEPT !.joined = Append(@, [i |-> am.i, vertCount |-> am.vertCount,
                                                 verts |-> aobj[am.tmpObject].verts,
                                                 tmp |-> am.tmpObject])]
  /\ selected' = selected \ {am.copyObject, am.originalObject}
  /\ active' = am.tmpObject
  /\ apc' = "key_delete"
  /\ UNCHANGED <<aobj0, nextId, am, ret, opres, odd>>
  /\ UNCHANGED <<sceneVars, toolVars>>

\* Shape key i: delete the temporary object; on to shape key i + 1.
KeyDelete ==
  /\ apc = "key_delete"
  /\ aobj' = Delete(aobj, selected)
  /\ selected' = {}
  /\ active' = 0
  /\ am' = [am EXCEPT !.i = @ + 1]
  /\ apc' = "loop"
  /\ UNCHANGED <<aobj0, nextId, ret, opres, hist, odd>>
  /\ UNCHANGED <<sceneVars, toolVars>>

\* After the last shape key: restore the names, then the other properties
\* of the original's keys; key_blocks[i] of a missing key raises.
RestoreKeys ==
  /\ apc = "loop"
  /\ am.i >= am.shapesCount
  /\ active' = am.originalObject
  /\ IF Len(aobj[am.originalObject].keys) < am.shapesCount
     THEN /\ aobj' = [aobj EXCEPT ![am.originalObject].keys = RestoreNames(@, am.list_properties)]
          /\ Raise
     ELSE /\ aobj' = [aobj EXCEPT ![am.originalObject].keys =
                        RestoreProperties(RestoreNames(@, am.list_properties), am.list_properties)]
          /\ apc' = "remove_copy"
          /\ UNCHANGED ret
  /\ UNCHANGED <<aobj0, selected, nextId, am, opres, hist, odd>>
  /\ UNCHANGED <<sceneVars, toolVars>>

\* Remove the copy and select the original again.
RemoveCopy ==
  /\ apc = "remove_copy"
  /\ aobj' = Delete(aobj, {am.copyObject})
  /\ active' = am.originalObject
  /\ selected' = {am.originalObject}
  /\ apc' = "am_finish"
  /\ UNCHANGED <<aobj0, nextId, am, ret, opres, hist, odd>>
  /\ UNCHANGED <<sceneVars, toolVars>>

\* Enable the armature modifiers again and return (True, None).
AM_Finish ==
  /\ apc = "am_finish"
  /\ LET names == {am.disabled_armature_modifiers[k] : k \in 1..Len(am.disabled_armature_modifiers)}
         mods == aobj[am.disabled_on].mods
     IN aobj' = [aobj EXCEPT ![am.disabled_on].mods =
                   [j \in 1..Len(mods) |->
                      IF mods[j].name \in names THEN [mods[j] EXCEPT !.show_viewport = TRUE]
                      ELSE mods[j]]]
  /\ Return(TRUE, "None")
  /\ UNCHANGED <<aobj0, selected, active, nextId, am, opres, hist, odd>>
  /\ UNCHANGED <<sceneVars, toolVars>>

\* The operator after apply_modifiers returned: its result is not looked at.
OpFinish ==
  /\ apc = "op_finish"
  /\ opres' = [reports |-> Report("INFO", "Modifiers applied for all selected objects"),
               result |-> "FINISHED"]
  /\ apc' = "done"
  /\ UNCHANGED <<aobj, aobj0, selected, active, nextId, am, ret, hist, odd>>
  /\ UNCHANGED <<sceneVars, toolVars>>

----------------------------------------------------------------------------
\* The scenes the operator is called in.

ModArmature ==
  [name |-> "Armature", type |-> "ARMATURE", show_viewport |-> TRUE, use_mirror_merge |-> FALSE]
ModDelete ==
  [name |-> "Delete helpers", type |-> "MASK", show_viewport |-> TRUE, use_mirror_merge |-> FALSE]
ModHide ==
  [name |-> "Hide helpers", type |-> "MASK", show_viewport |-> TRUE, use_mirror_merge |-> FALSE]
ModMirror ==
  [name |-> "Delete mirror", type |-> "MIRROR", show_viewport |-> TRUE, use_mirror_merge |-> TRUE]

\* Modifier stacks with a match for "delete" or "hide helpers".
ModStacks == {<<ModArmature, ModDelete, ModHide>>, <<ModDelete>>, <<ModMirror, ModDelete>>}

KeyNames == <<"Basis", "jawOpen", "mouthSmileLeft", "eyeBlinkLeft", "browInnerUp", "tongueOut">>

\* A key with every property away from the host's default.
AlteredKey(n, s, rel) ==
  [name |-> n, mute |-> TRUE, interpolation |-> "KEY_BSPLINE",
   slider_min |-> -100, slider_max |-> 200, value |-> 50, vertex_group |-> "Face",
   relative_key |-> rel, shape |-> s]

\* Key lists of n keys: key k is altered and relative to key rel, the
\* others are as the host makes them.
KeyLists(n) ==
  IF n = 0 THEN {<<>>}
  ELSE {[i \in 1..n |-> IF i = k THEN AlteredKey(<<KeyNames[i], 0>>, i - 1, rel)
                        ELSE DefaultKey(<<KeyNames[i], 0>>, i - 1)] :
          k \in 1..n, rel \in 1..n}

Mesh(n, mods, keys) ==
  [name |-> <<n, 0>>, type |-> "MESH", verts |-> MeshVerts, shape |-> 0,
   mods |-> mods, keys |-> keys, aski |-> 0]

Empty(n) ==
  [name |-> <<n, 0>>, type |-> "EMPTY", verts |-> 0, shape |-> 0,
   mods |-> <<>>, keys |-> <<>>, aski |-> 0]

\* Object 1 is selected and active.
SceneSelectedActive ==
  \E mods \in ModStacks \cup {<<ModArmature>>}, n \in 0..MaxKeys : \E keys \in KeyLists(n) :
    /\ aobj = <<Mesh("Body", mods, keys), Mesh("Teeth", <<>>, <<>>)>>
    /\ selected = {1} /\ active = 1
    /\ odd \in SUBSET (0..(IF n = 0 THEN 0 ELSE n - 1))

\* Object 1 is selected; the active object is object 2, another mesh, with
\* or without modifiers of the same names.
SceneOtherActive ==
  \E mods \in ModStacks, n \in 0..MaxKeys : \E keys \in KeyLists(n) :
    /\ \E mods2 \in {mods, <<ModArmature>>} :
         aobj = <<Mesh("Body", mods, <<>>), Mesh("Teeth", mods2, keys)>>
    /\ selected = {1} /\ active = 2
    /\ odd \in SUBSET (0..(IF n = 0 THEN 0 ELSE n - 1))

\* Two objects are selected; an empty is selected; an empty is active.
SceneRefused ==
  /\ odd = {}
  /\ \/ /\ aobj = <<Mesh("Body", <<ModDelete>>, <<>>), Mesh("Teeth", <<>>, <<>>)>>
        /\ selected = {1, 2} /\ active = 1
     \/ /\ aobj = <<Mesh("Body", <<ModDelete>>, <<>>), Empty("Empty")>>
        /\ selected = {2} /\ active = 2
     \/ /\ aobj = <<Mesh("Body", <<ModDelete>>, <<>>), Empty("Empty")>>
        /\ selected = {1} /\ active = 2

NoLocals ==
  [selectedModifiers |-> <<>>, contains_mirror_with_merge |-> FALSE,
   disabled_armature_modifiers |-> <<>>, disabled_on |-> 0,
   shapesCount |-> 0, vertCount |-> -1, list_properties |-> <<>>, i |-> 0,
   originalObject |-> 0, copyObject |-> 0, tmpObject |-> 0]

ApplyStart ==
  /\ nextId = 3
  /\ am = NoLocals
  /\ ret = [status |-> "none", ok |-> FALSE, info |-> ""]
  /\ opres = [reports |-> <<>>, result |-> "none"]
  /\ hist = [searched |-> 0, applied |-> <<>>, joined |-> <<>>]

\* The apply variables of a run of a build or rename script.
ApplyIdle ==
  /\ aobj = <<>> /\ aobj0 = <<>> /\ selected = {} /\ active = 0 /\ odd = {}
  /\ apc = "idle"
  /\ ApplyStart

\* The scene variables of a run of the operator.
SceneIdle ==
  /\ script = "none" /\ override = FALSE
  /\ objName = <<>> /\ objName0 = <<>> /\ parent = <<>>
  /\ okeys = <<>> /\ okeys0 = <<>>
  /\ vi = 0 /\ spc = "idle"

InitApply ==
  /\ SceneSelectedActive \/ SceneOtherActive \/ SceneRefused
  /\ aobj0 = aobj
  /\ apc = "op"
  /\ ApplyStart
  /\ SceneIdle
  /\ ToolsIdle

NextApply ==
  \/ OpExecute \/ AM_Inspect \/ AM_Count \/ AM_Copy \/ AM_Save
  \/ BaseRemoveKeys \/ BaseApplyModifiers \/ BaseAddBasis
  \/ KeyDuplicate \/ KeyTransfer \/ KeyApply \/ KeyVerify \/ KeyJoin \/ KeyDelete
  \/ RestoreKeys \/ RemoveCopy \/ AM_Finish \/ OpFinish

SpecApply == InitApply /\ [][NextApply]_vars

----------------------------------------------------------------------------
\* Scenes the scripts are run on.

\* Scene trees: an object's parent comes before it in scene.objects.
Parents == {p \in [Objs -> 0..NObj] : \A o \in Objs : p[o] < o}

\* Object names: at most one object is named "AvatarRoot".
ObjNames(ar) == [o \in Objs |-> IF o = ar THEN <<"AvatarRoot", 0>> ELSE <<"Object", o>>]

\* A shape key the scene had before the script: its value is not 0 at even
\* positions.
InitKey(n, i) ==
  [name |-> n, value |-> IF i % 2 = 0 THEN 100 ELSE 0, orig |-> i, mix |-> {}]

InitKeys(names) == [i \in 1..Len(names) |-> InitKey(names[i], i)]

RECURSIVE SeqOf(_)
SeqOf(S) == IF S = {} THEN <<>> ELSE LET x == CHOOSE x \in S : TRUE IN <<x>> \o SeqOf(S \ {x})

TargetsOf(tbl) == {tbl[i].name : i \in 1..Len(tbl)}
CompsOf(tbl) == UNION {{tbl[i].mix[j].name : j \in 1..Len(tbl[i].mix)} : i \in 1..Len(tbl)}

\* Which of a set of names an object has: all, none, or one of them.
Some(S) == {S, {}} \cup {{x} : x \in S}

\* Key lists for a build run: "Basis", some components, some targets.
BuildKeyLists(tbl) ==
  {InitKeys(<<"Basis">> \o SeqOf(P \cup T)) :
     P \in Some(CompsOf(tbl)), T \in Some(TargetsOf(tbl))}

\* Sequences of distinct names of S no longer than n.
RECURSIVE DistinctSeqs(_, _)
DistinctSeqs(S, n) ==
  IF n = 0 THEN {<<>>}
  ELSE LET shorter == DistinctSeqs(S, n - 1)
       IN shorter \cup
          UNION {{Append(q, x) : x \in S \ {q[i] : i \in 1..Len(q)}} :
                   q \in {r \in shorter : Len(r) = n - 1}}

\* Key lists for a rename run: a mapped source name, its new name and an
\* unmapped name, in any order.
RenameKeyLists(map) ==
  UNION {{InitKeys(q) : q \in DistinctSeqs({"Basis", map[e][1], map[e][2]}, MaxKeysR)} :
           e \in 1..Len(map)}

InitScene(keylists, ars) ==
  /\ parent \in Parents
  /\ \E K \in keylists, keyed \in SUBSET Objs :
       okeys = [o \in Objs |-> IF o \in keyed THEN K ELSE <<>>]
  /\ \E ar \in ars : objName = ObjNames(ar)
  /\ okeys0 = okeys
  /\ objName0 = objName
  /\ vi = 1

InitBuild ==
  /\ script \in BuildScripts
  /\ override \in BOOLEAN
  /\ InitScene(BuildKeyLists(ShapekeysOf(script)), {0})
  /\ spc = "walk"
  /\ ApplyIdle
  /\ ToolsIdle

InitRename ==
  /\ script \in RenameScripts
  /\ override = FALSE
  /\ InitScene(RenameKeyLists(ShapekeyMapOf(script)), IF script = "avatarsdk" THEN 0..NObj ELSE {0})
  /\ spc = IF script = "avatarsdk" THEN "root" ELSE "walk"
  /\ ApplyIdle
  /\ ToolsIdle

NextBuild == BuildVisit \/ SkipVisit \/ WalkDone
NextRename == RenameRoot \/ RenameVisit \/ SkipVisit \/ WalkDone

SpecBuild == InitBuild /\ [][NextBuild]_vars
SpecRename == InitRename /\ [][NextRename]_vars

----------------------------------------------------------------------------
\* Properties of the build scripts (SpecBuild).

\* The positions of the keys named n.
Named(keys, n) == {i \in 1..Len(keys) : keys[i].name = n}

\* The keys added by the script.
Built(keys) == {i \in 1..Len(keys) : keys[i].orig = 0}

\* The entry of a target in the script's list.
EntryOf(tbl, t) == tbl[CHOOSE i \in 1..Len(tbl) : tbl[i].name = t]

\* The listed weight of a name in a mix, 0 for a name that is no component.
WeightIn(mix, n) ==
  IF \E j \in 1..Len(mix) : mix[j].name = n
  THEN mix[CHOOSE j \in 1..Len(mix) : mix[j].name = n].value
  ELSE 0

\* C4: with override = False a target key that existed before the run is, at
\* every moment of the run, still on its object (the very key, neither
\* removed nor rebuilt) and it is the only key of that name.
C4_ExistingTargetsKept ==
  ~override =>
    \A o \in Objs : \A t \in TargetsOf(ShapekeysOf(script)) :
      HasKey(okeys0[o], t) =>
        /\ Cardinality(Named(okeys[o], t)) = 1
        /\ okeys[o][Find(okeys[o], t)].orig = Find(okeys0[o], t)

\* C4 witness: a finished run without override on an object that had a target
\* and got another one built.
C4_Witness ==
  /\ spc = "done" /\ ~override
  /\ \E o \in Objs :
       /\ \E t \in TargetsOf(ShapekeysOf(script)) : HasKey(okeys0[o], t)
       /\ Built(okeys[o]) /= {}

\* C5: after a run with override = False, on an object with shape keys a
\* target exists iff it existed before or one of its components exists on the
\* object; one key is added per target that was missing and is now there, and
\* an object without shape keys still has none.
C5_BuiltIffComponent ==
  (spc = "done" /\ ~override) =>
    \A o \in Objs :
      IF okeys0[o] = <<>> THEN okeys[o] = <<>>
      ELSE LET tbl == ShapekeysOf(script)
               added == {t \in TargetsOf(tbl) : HasKey(okeys[o], t) /\ ~HasKey(okeys0[o], t)}
           IN /\ \A t \in TargetsOf(tbl) :
                   /\ HasKey(okeys[o], t) <=>
                        \/ HasKey(okeys0[o], t)
                        \/ \E j \in 1..Len(EntryOf(tbl, t).mix) :
                             HasKey(okeys0[o], EntryOf(tbl, t).mix[j].name)
                   /\ Cardinality(Named(okeys[o], t)) <= 1
              /\ Len(okeys[o]) = Len(okeys0[o]) + Cardinality(added)
              /\ \A i \in Built(okeys[o]) : okeys[o][i].name \in added

\* C5 witness: a finished run without override in which an object got one
\* target built and another, with no component on the object, not built, and
\* some object has no shape keys.
C5_Witness ==
  /\ spc = "done" /\ ~override
  /\ \E o \in Objs : okeys0[o] = <<>>
  /\ \E o \in Objs : \E t, u \in TargetsOf(ShapekeysOf(script)) :
       /\ ~HasKey(okeys0[o], t) /\ HasKey(okeys[o], t)
       /\ okeys0[o] /= <<>> /\ ~HasKey(okeys[o], u)
       /\ EntryOf(ShapekeysOf(script), u).mix /= <<>>

\* C6: every key a build script creates was taken from a mix in which each
\* key of the object that is a component of the target has its listed weight
\* and every other key of the object has value 0.
C6_MixIsListedWeights ==
  \A o \in Objs : \A i \in Built(okeys[o]) :
    LET mix == EntryOf(ShapekeysOf(script), okeys[o][i].name).mix
    IN \A nv \in okeys[o][i].mix : nv[2] = WeightIn(mix, nv[1])

\* C6 witness: a built key whose mix held a component at a weight other than
\* 0, a key whose value was not 0 before the run, and a target built earlier
\* in the same run.
C6_Witness ==
  \E o \in Objs : \E i \in Built(okeys[o]) :
    /\ \E nv \in okeys[o][i].mix : nv[2] /= 0
    /\ \E nv \in okeys[o][i].mix : \E k \in 1..Len(okeys0[o]) :
         okeys0[o][k].name = nv[1] /\ okeys0[o][k].value /= 0 /\ nv[2] = 0
    /\ \E nv \in okeys[o][i].mix : \E k \in Built(okeys[o]) :
         k < i /\ okeys[o][k].name = nv[1]

\* C7 (as claimed): after a run with override = True every target that
\* existed on an object at the start exists on it as a key built by the run.
C7_OverrideRebuildsEvery ==
  (spc = "done" /\ override) =>
    \A o \in Objs : \A t \in TargetsOf(ShapekeysOf(script)) :
      HasKey(okeys0[o], t) =>
        \E i \in Built(okeys[o]) : okeys[o][i].name = t

\* C8 (as claimed): after build-visemes-from-arkit or the Faceit script, an
\* object that had every mix component and none of the visemes has every
\* viseme of the script's list.
C8_AllVisemesBuilt ==
  (spc = "done" /\ script \in {"arkit", "faceit"}) =>
    \A o \in Objs :
      ( /\ \A c \in CompsOf(ShapekeysOf(script)) : HasKey(okeys0[o], c)
        /\ \A t \in TargetsOf(ShapekeysOf(script)) : ~HasKey(okeys0[o], t) )
      => \A t \in TargetsOf(ShapekeysOf(script)) : HasKey(okeys[o], t)

----------------------------------------------------------------------------
\* Properties of the rename scripts (SpecRename).

\* The source names of a map.
SourcesOf(map) == {map[e][1] : e \in 1..Len(map)}

KeysOnlyRenamed ==
  \A o \in Objs :
    /\ Len(okeys[o]) = Len(okeys0[o])
    /\ \A i \in 1..Len(okeys0[o]) :
         /\ [okeys[o][i] EXCEPT !.name = okeys0[o][i].name] = okeys0[o][i]
         /\ okeys0[o][i].name \notin SourcesOf(ShapekeyMapOf(script))
              => okeys[o][i].name = okeys0[o][i].name

\* C10 (as claimed): a rename script changes only names of mapped keys, and
\* an object without shape keys is not modified at all.
C10_OnlyKeyNamesChange ==
  /\ KeysOnlyRenamed
  /\ \A o \in Objs : okeys0[o] = <<>> => objName[o] = objName0[o]

\* C10 (amended): as claimed, except that rename-avatarsdk-shapekeys renames
\* the scene object "AvatarRoot" to "Armature", whether or not it has shape
\* keys; no other object name changes.
C10_OnlyKeyNamesAndRootChange ==
  /\ KeysOnlyRenamed
  /\ \A o \in Objs :
       objName[o] = IF script = "avatarsdk" /\ spc /= "root"
                       /\ objName0[o] = <<"AvatarRoot", 0>>
                    THEN <<"Armature", 0>>
                    ELSE objName0[o]

\* C10 witness: a finished run that renamed a key of an object that also has
\* an unmapped key, in a scene with an object without shape keys.
C10_Witness ==
  /\ spc = "done"
  /\ \E o \in Objs : okeys0[o] = <<>>
  /\ \E o \in Objs : \E i, k \in 1..Len(okeys0[o]) :
       /\ okeys[o][i].name /= okeys0[o][i].name
       /\ okeys0[o][k].name \notin SourcesOf(ShapekeyMapOf(script))
----------------------------------------------------------------------------
\* Properties of the "Apply modifiers" operator and apply_modifiers
\* (SpecApply).

\* The properties of key i that apply_modifiers is to preserve, the relative
\* key by its name.
KeyProperties(keys, i) ==
  <<keys[i].name, keys[i].mute, keys[i].interpolation, keys[i].slider_min,
    keys[i].slider_max, keys[i].value, keys[i].vertex_group,
    keys[keys[i].relative_key].name>>

\* apply_modifiers returned (True, None) for a mesh that had shape keys.
ReturnedTrueWithKeys ==
  /\ ret.status = "returned" /\ ret.ok
  /\ am.originalObject /= 0
  /\ Len(aobj0[am.originalObject].keys) >= 1

\* C1: when apply_modifiers returns (True, None) for an active mesh that had
\* N >= 1 shape keys, the mesh has N shape keys again and key i has the name,
\* mute, interpolation, slider_min, slider_max, value, vertex_group and
\* relative key (by name) that key i had before the call.
C1_ShapeKeysPreserved ==
  ReturnedTrueWithKeys =>
    LET before == aobj0[am.originalObject].keys
        after == aobj[am.originalObject].keys
    IN /\ Len(after) = Len(before)
       /\ \A i \in 1..Len(before) : KeyProperties(after, i) = KeyProperties(before, i)

\* C1 witness: a successful call on a mesh with three or more keys, one of
\* them muted and relative to a key that is neither the basis nor itself,
\* with the modifiers applied.
C1_Witness ==
  /\ ReturnedTrueWithKeys
  /\ Len(aobj0[am.originalObject].keys) >= 3
  /\ \E i \in 2..Len(aobj0[am.originalObject].keys) :
       /\ aobj0[am.originalObject].keys[i].mute
       /\ aobj0[am.originalObject].keys[i].relative_key \notin {1, i}
  /\ aobj[am.originalObject].verts < aobj0[am.originalObject].verts

\* C2: join_shapes is only ever called for a temporary object whose vertex
\* count after the modifiers equals that of the original after the base
\* shape; and when apply_modifiers returns False it returns the error
\* message at a key whose temporary differs, having joined exactly the keys
\* before it.
C2_NoJoinOnVertexMismatch ==
  /\ \A k \in 1..Len(hist.joined) :
       /\ hist.joined[k].verts = hist.joined[k].vertCount
       /\ hist.joined[k].vertCount = aobj[am.originalObject].verts
  /\ (ret.status = "returned" /\ ~ret.ok) =>
       /\ ret.info \in {errorInfo, errorInfoHint}
       /\ aobj[am.tmpObject].verts /= aobj[am.originalObject].verts
       /\ [k \in 1..Len(hist.joined) |-> hist.joined[k].i] = [k \in 1..(am.i - 1) |-> k]

\* C2 witness: apply_modifiers returned False at a shape key after it had
\* joined an earlier one.
C2_Witness ==
  /\ ret.status = "returned" /\ ~ret.ok
  /\ Len(hist.joined) >= 1

\* C3 (as claimed): when the operator finishes, the modifiers it matched are
\* applied to the object whose modifier list it searched (the one selected
\* object), and no other object of the scene is changed.
C3_AppliedToSearchedObject ==
  opres.result = "FINISHED" =>
    /\ \A k \in 1..Len(am.selectedModifiers) :
         ~HasModifier(aobj[hist.searched], am.selectedModifiers[k])
    /\ \A o \in DOMAIN aobj0 \ {hist.searched} : aobj[o] = aobj0[o]

\* The per-key temporary objects there are: the objects that were not there
\* before the call and are not the copy.
Temporaries == {o \in DOMAIN aobj : o \notin DOMAIN aobj0 /\ o /= am.copyObject}

\* The temporary object of shape key k: the one that was joined for it, or
\* the one of the key at hand.
TmpOfKey(k) == IF k <= Len(hist.joined) THEN hist.joined[k].tmp ELSE am.tmpObject

\* The modifier_apply calls so far are, in this order: the selected
\* modifiers in list order on the original, then for shape key 1, 2, ... the
\* selected modifiers in list order on that key's temporary.
AppliedInOrder ==
  LET M == am.selectedModifiers
  IN \A p \in 1..Len(hist.applied) :
       hist.applied[p] =
         << IF (p - 1) \div Len(M) = 0 THEN am.originalObject ELSE TmpOfKey((p - 1) \div Len(M)),
            M[((p - 1) % Len(M)) + 1] >>

\* C18: in a call of apply_modifiers for a mesh with N >= 1 shape keys, the
\* base shape comes first (the original loses all its shape keys, then the
\* selected modifiers are applied to it in list order, then it gets a fresh
\* basis key), and shape keys 1..N-1 follow in increasing order, each one
\* with a temporary duplicate of the copy that gets key i as its mesh, then
\* the modifiers in list order, then the vertex check, then is joined into
\* the original and then deleted; there is never more than one temporary;
\* and a call that returns (True, None) has joined exactly N-1 times.
C18_BaseFirstThenKeysInOrder ==
  (am.shapesCount >= 1 /\ am.originalObject /= 0) =>
    LET M == am.selectedModifiers
        N == am.shapesCount
        orig == aobj[am.originalObject]
        nApplied == Len(hist.applied)
        nJoined == Len(hist.joined)
    IN /\ AppliedInOrder
       /\ \A k \in 1..nJoined : hist.joined[k].i = k
       /\ nJoined <= N - 1
       /\ Cardinality(Temporaries) <= 1
       /\ apc \in {"am_save", "base_remove"} => nApplied = 0 /\ nJoined = 0 /\ Temporaries = {}
       /\ apc = "base_apply" => orig.keys = <<>> /\ nApplied = 0 /\ nJoined = 0
       /\ apc = "base_add" => orig.keys = <<>> /\ nApplied = Len(M) /\ nJoined = 0
       /\ apc = "loop" =>
            /\ am.i \in 1..N /\ Temporaries = {}
            /\ nApplied = am.i * Len(M) /\ nJoined = am.i - 1
            /\ Len(orig.keys) = am.i /\ orig.keys[1].name = <<"Basis", 0>>
       /\ apc \in {"key_transfer", "key_apply", "key_verify", "key_join", "key_delete"} =>
            /\ am.i \in 1..(N - 1)
            /\ Temporaries = {am.tmpObject}
            /\ aobj[am.tmpObject].keys = <<>>
       /\ apc \in {"key_transfer", "key_apply"} => nApplied = am.i * Len(M) /\ nJoined = am.i - 1
       /\ apc = "key_apply" => aobj[am.tmpObject].shape = aobj[am.copyObject].keys[am.i + 1].shape
       /\ apc \in {"key_verify", "key_join"} => nApplied = (am.i + 1) * Len(M) /\ nJoined = am.i - 1
       /\ apc = "key_join" => aobj[am.tmpObject].verts = am.vertCount
       /\ apc = "key_delete" =>
            /\ nApplied = (am.i + 1) * Len(M) /\ nJoined = am.i
            /\ hist.joined[am.i].tmp = am.tmpObject
       /\ (ret.status = "returned" /\ ret.ok) =>
            /\ nJoined = N - 1 /\ nApplied = N * Len(M)
            /\ Temporaries = {}
            /\ \A k \in 1..N : orig.keys[k].shape = k - 1

\* apply_modifiers returned (True, None) for a mesh with three shape keys
\* and two selected modifiers: two joins, six modifier_apply calls.
C18_Witness ==
  /\ ret.status = "returned" /\ ret.ok
  /\ am.shapesCount = 3 /\ Len(am.selectedModifiers) = 2
  /\ Len(hist.joined) = 2 /\ Len(hist.applied) = 6

----------------------------------------------------------------------------
\* rename-mixamo-bones.
\*
\* A bone name is a sequence of pieces of text.  The pieces are the text
\* 'mixamorig:', its two halves 'mixamo' and 'rig:', and 'Hips'; a name is
\* kept spelled with 'mixamorig:' wherever its two halves meet, so that two
\* names are the same text exactly when they are the same sequence.

Prefix == "mixamorig:"
Pieces == {"mixamorig:", "mixamo", "rig:", "Hips"}

RECURSIVE Spell(_)
\* The spelling of a sequence of pieces: 'mixamo' followed by 'rig:' reads
\* 'mixamorig:'.
Spell(n) ==
  IF Len(n) < 2 THEN n
  ELSE IF n[1] = "mixamo" /\ n[2] = "rig:" THEN <<Prefix>> \o Spell(Tail(Tail(n)))
  ELSE <<n[1]>> \o Spell(Tail(n))

RECURSIVE CutAll(_)
\* The scan of str.replace: left to right, every occurrence of the text
\* 'mixamorig:' is dropped and the scan goes on behind it.
CutAll(n) ==
  IF n = <<>> THEN <<>>
  ELSE IF n[1] = Prefix THEN CutAll(Tail(n))
  ELSE <<n[1]>> \o CutAll(Tail(n))

\* b.name.replace('mixamorig:', '')
Replace(n) == Spell(CutAll(n))

\* hasBones(x): the object's data has bones (the object is an armature).
hasBones(o) == bones[o].has

\* "for b in o.data.bones: b.name = b.name.replace(...)"
RenameBones(b) == [b EXCEPT !.names = [i \in 1..Len(b.names) |-> Replace(b.names[i])]]

\* A visited object with bones: rename its bones.
BonesVisit ==
  /\ script = "mixamo"
  /\ spc = "walk"
  /\ vi <= Len(Visits)
  /\ hasBones(Visits[vi])
  /\ bones' = [bones EXCEPT ![Visits[vi]] = RenameBones(bones[Visits[vi]])]
  /\ vi' = vi + 1
  /\ UNCHANGED <<script, override, objName, parent, okeys, okeys0, objName0, spc, bones0>>
  /\ UNCHANGED <<applyVars, notBones>>

\* A visited object without bones is passed over.
BonesSkip ==
  /\ script = "mixamo"
  /\ spc = "walk"
  /\ vi <= Len(Visits)
  /\ ~hasBones(Visits[vi])
  /\ vi' = vi + 1
  /\ UNCHANGED <<script, override, objName, parent, okeys, okeys0, objName0, spc>>
  /\ UNCHANGED <<applyVars, toolVars>>

----------------------------------------------------------------------------
\* The scenes of a run of rename-mixamo-bones.

RECURSIVE NamesUpTo(_)
\* The sequences of at most n pieces.
NamesUpTo(n) ==
  IF n = 0 THEN {<<>>}
  ELSE LET shorter == NamesUpTo(n - 1)
       IN shorter \cup {<<p>> \o q : p \in Pieces, q \in {r \in shorter : Len(r) = n - 1}}

\* Bone names: they end with the bone's own name and are spelled with
\* 'mixamorig:' wherever its halves meet.
BoneNames == {n \in NamesUpTo(MaxNameLen) : n /= <<>> /\ n[Len(n)] = "Hips" /\ Spell(n) = n}

RECURSIVE Bare(_)
\* What is left of a name when nothing more can be dropped from it.
Bare(n) == IF Replace(n) = n THEN n ELSE Bare(Replace(n))

\* The bones of an armature: their names differ, and still differ when the
\* prefixes are gone (the host keeps the names of an armature's bones apart).
BoneLists ==
  {q \in DistinctSeqs(BoneNames, MaxBones) :
     \A i, j \in 1..Len(q) : i /= j => Bare(q[i]) /= Bare(q[j])}

InitBones ==
  /\ script = "mixamo"
  /\ override = FALSE
  /\ InitScene({<<>>}, {0})
  /\ spc = "walk"
  /\ \E B \in BoneLists, arms \in SUBSET Objs :
       bones = [o \in Objs |-> [has |-> o \in arms, names |-> IF o \in arms THEN B ELSE <<>>]]
  /\ bones0 = bones
  /\ ApplyIdle
  /\ OthersIdleBones

NextBones == BonesVisit \/ BonesSkip \/ WalkDone

SpecBones == InitBones /\ [][NextBones]_vars

----------------------------------------------------------------------------
\* Properties of rename-mixamo-bones (SpecBones).

\* name.startswith('mixamorig:')
StartsWithPrefix(n) == n /= <<>> /\ n[1] = Prefix

\* C11 (as claimed): after the script a bone whose name started with
\* 'mixamorig:' has its former name without that one leading prefix, and a
\* bone whose name did not start with 'mixamorig:' has its former name.
C11_LeadingPrefixRemoved ==
  spc = "done" /\ script = "mixamo" =>
    \A o \in Objs : \A i \in 1..Len(bones0[o].names) :
      bones[o].names[i] = IF StartsWithPrefix(bones0[o].names[i])
                          THEN Tail(bones0[o].names[i])
                          ELSE bones0[o].names[i]

----------------------------------------------------------------------------
\* build-avatarsdk-eyes.
\*
\* Angles are kept in degrees (math.radians only changes the unit).  A
\* shape-key name is a base name and the number of the ".001" suffix the host
\* gives a name that is already taken (0: no suffix).  A shape key records
\* whether it was baked in this run and the pose it was baked from.

ARMATURE_NAME == "Armature"

LEFT ==
  [mesh |-> "AvatarLeftEyeball", bone |-> "LeftEye", side |-> "Left",
   rotations |-> << <<"Up", -20>>, <<"Down", 30>>, <<"In", -25>>, <<"Out", 25>> >>]

RIGHT ==
  [mesh |-> "AvatarRightEyeball", bone |-> "RightEye", side |-> "Right",
   rotations |-> << <<"Up", -20>>, <<"Down", 30>>, <<"In", 25>>, <<"Out", -25>> >>]

UP_DOWN_AXIS == "X"
IN_OUT_AXIS == "Y"

\* The configurations in the order the script bakes them.
Configs == <<LEFT, RIGHT>>

\* f"eyeLook{direction}{config['side']}", spelled out.
ShapeName(direction, side) ==
  CASE direction = "Up"   /\ side = "Left"  -> "eyeLookUpLeft"
    [] direction = "Down" /\ side = "Left"  -> "eyeLookDownLeft"
    [] direction = "In"   /\ side = "Left"  -> "eyeLookInLeft"
    [] direction = "Out"  /\ side = "Left"  -> "eyeLookOutLeft"
    [] direction = "Up"   /\ side = "Right" -> "eyeLookUpRight"
    [] direction = "Down" /\ side = "Right" -> "eyeLookDownRight"
    [] direction = "In"   /\ side = "Right" -> "eyeLookInRight"
    [] direction = "Out"  /\ side = "Right" -> "eyeLookOutRight"

\* The transform of a pose bone at rest.
Rest ==
  [location |-> <<0, 0, 0>>, rotation_mode |-> "XYZ",
   rotation_euler |-> <<0, 0, 0>>, scale |-> <<1, 1, 1>>]

\* The pose as a set of pairs, as a shape key records it.
PoseOf(p) == {<<b, p[b]>> : b \in DOMAIN p}

\* key_blocks.get(name) is not None / name in key_blocks
EyeHasKey(keys, base) == \E i \in 1..Len(keys) : keys[i].name = <<base, 0>>

\* The name the host gives a key that asks for the name base: the name
\* itself, or the name with the first free suffix.
UniqueName(keys, base) ==
  <<base, CHOOSE n \in 0..Len(keys) :
            /\ \A i \in 1..Len(keys) : keys[i].name /= <<base, n>>
            /\ \A m \in 0..(n - 1) : \E i \in 1..Len(keys) : keys[i].name = <<base, m>> >>

\* mesh.shape_key_add(name=..., from_mix=False)
EyeKeyAdd(keys, base) ==
  Append(keys, [name |-> UniqueName(keys, base), baked |-> FALSE, pose |-> {}])

\* ensure_basis(mesh)
ensure_basis(keys) ==
  IF keys = <<>> THEN EyeKeyAdd(keys, "Basis")
  ELSE IF ~EyeHasKey(keys, "Basis") THEN EyeKeyAdd(keys, "Basis")
  ELSE keys

remove_shape_key_Never(keys, base) == keys

\* remove_shape_key(mesh, name)
remove_shape_key(keys, base) ==
  IF keys = <<>> THEN keys
  ELSE IF EyeHasKey(keys, base)
       THEN SelectSeq(keys, LAMBDA k : k.name /= <<base, 0>>)
       ELSE keys

reset_pose_Nothing(p) == p

\* reset_pose(arm)
reset_pose(p) == [b \in DOMAIN p |-> Rest]

set_bone_rotation_Keep(t, axis, degrees) ==
  [t EXCEPT !.rotation_mode = "XYZ",
            !.rotation_euler = IF axis = "X" THEN <<degrees, t.rotation_euler[2], t.rotation_euler[3]>>
                               ELSE <<t.rotation_euler[1], degrees, t.rotation_euler[3]>>]

\* set_bone_rotation(pbone, axis, degrees)
set_bone_rotation(t, axis, degrees) ==
  [t EXCEPT !.rotation_mode = "XYZ",
            !.rotation_euler = CASE axis = "X" -> <<degrees, 0, 0>>
                                 [] axis = "Y" -> <<0, degrees, 0>>
                                 [] axis = "Z" -> <<0, 0, degrees>>
                                 [] OTHER -> <<0, 0, 0>>]

\* The first modifier of type ARMATURE that is shown in the viewport, 0 if
\* there is none.
FirstArmature(mods) ==
  IF \E i \in 1..Len(mods) : mods[i].type = "ARMATURE" /\ mods[i].show_viewport
  THEN CHOOSE i \in 1..Len(mods) :
         /\ mods[i].type = "ARMATURE" /\ mods[i].show_viewport
         /\ \A j \in 1..(i - 1) : ~(mods[j].type = "ARMATURE" /\ mods[j].show_viewport)
  ELSE 0

\* modifier_apply_as_shapekey(modifier=mod.name, keep_modifier=True): a new
\* last key, named after the modifier, holding the mesh as the pose deforms it.
ApplyAsShapekey(keys, modname, p) ==
  Append(keys, [name |-> UniqueName(keys, modname), baked |-> TRUE, pose |-> PoseOf(p)])

\* key_blocks[-1].name = shape_name
NameLast(keys, base) ==
  LET others == SubSeq(keys, 1, Len(keys) - 1)
  IN Append(others, [keys[Len(keys)] EXCEPT !.name = UniqueName(others, base)])

\* The configuration bake_eye was called with.
Config == Configs[ecfg]

\* The direction and the angle the loop of bake_eye is at.
Direction == Config.rotations[edir][1]
Angle == Config.rotations[edir][2]

\* An exception leaves the script.
EyeRaise ==
  /\ epc' = "raised"
  /\ UNCHANGED <<eobjs, epose, ekeys, emods, ecfg, edir>>

\* bake_eye(config), up to its loop: the armature, the mesh and the pose
\* bone are looked up (a missing one raises KeyError), then ensure_basis.
EyeStart ==
  /\ epc = "start"
  /\ IF ARMATURE_NAME \in eobjs /\ Config.mesh \in eobjs /\ Config.bone \in DOMAIN epose
     THEN /\ ekeys' = [ekeys EXCEPT ![Config.mesh] = ensure_basis(ekeys[Config.mesh])]
          /\ edir' = 1
          /\ epc' = "pose"
          /\ UNCHANGED <<eobjs, epose, emods, ecfg>>
     ELSE EyeRaise
  /\ UNCHANGED <<OVERRIDE_EXISTING, ekeys0, epose0, eactive>>
  /\ UNCHANGED <<sceneVars, applyVars, notEyes>>

\* One turn of the loop up to view_layer.update(): the existing key is
\* removed if requested, all bones are reset, the eye bone is rotated.
EyePose ==
  /\ epc = "pose"
  /\ ekeys' = [ekeys EXCEPT ![Config.mesh] =
                 IF OVERRIDE_EXISTING
                 THEN remove_shape_key(ekeys[Config.mesh], ShapeName(Direction, Config.side))
                 ELSE ekeys[Config.mesh]]
  /\ epose' = [reset_pose(epose) EXCEPT ![Config.bone] =
                 set_bone_rotation(reset_pose(epose)[Config.bone],
                                   IF Direction \in {"Up", "Down"} THEN UP_DOWN_AXIS ELSE IN_OUT_AXIS,
                                   Angle)]
  /\ epc' = "save"
  /\ UNCHANGED <<OVERRIDE_EXISTING, eobjs, ekeys0, epose0, emods, ecfg, edir, eactive>>
  /\ UNCHANGED <<sceneVars, applyVars, notEyes>>

\* save_armature_as_shape_key(mesh, shape_name) and the end of the turn.
EyeSave ==
  /\ epc = "save"
  /\ eactive' = Config.mesh
  /\ LET i == FirstArmature(emods[Config.mesh])
     IN IF i /= 0
        THEN /\ ekeys' = [ekeys EXCEPT ![Config.mesh] =
                            NameLast(ApplyAsShapekey(ekeys[Config.mesh], emods[Config.mesh][i].name, epose),
                                     ShapeName(Direction, Config.side))]
             /\ IF edir < Len(Config.rotations)
                THEN edir' = edir + 1 /\ epc' = "pose"
                ELSE edir' = edir /\ epc' = "cleanup"
             /\ UNCHANGED <<eobjs, epose, emods, ecfg>>
        ELSE EyeRaise
  /\ UNCHANGED <<OVERRIDE_EXISTING, ekeys0, epose0>>
  /\ UNCHANGED <<sceneVars, applyVars, notEyes>>

\* The final reset_pose of bake_eye; the script goes on with the next
\* configuration or ends.
EyeCleanup ==
  /\ epc = "cleanup"
  /\ epose' = reset_pose(epose)
  /\ IF ecfg < Len(Configs)
     THEN ecfg' = ecfg + 1 /\ epc' = "start"
     ELSE ecfg' = ecfg /\ epc' = "done"
  /\ UNCHANGED <<OVERRIDE_EXISTING, eobjs, ekeys, ekeys0, epose0, emods, edir, eactive>>
  /\ UNCHANGED <<sceneVars, applyVars, notEyes>>

----------------------------------------------------------------------------
\* The scenes of a run of build-avatarsdk-eyes.

EyeObjs == {"Armature", "AvatarLeftEyeball", "AvatarRightEyeball"}

\* A pose bone that was moved, turned and scaled.
Moved ==
  [location |-> <<1, 0, 0>>, rotation_mode |-> "QUATERNION",
   rotation_euler |-> <<5, 5, 5>>, scale |-> <<2, 2, 2>>]

\* The poses of the armature: with both eye bones and the head, or without
\* the right eye bone.
EyePoses ==
  [{"LeftEye", "RightEye", "Head"} -> {Rest, Moved}]
    \cup {[b \in {"LeftEye", "Head"} |-> Moved]}

ArmatureShown == [name |-> "Armature", type |-> "ARMATURE", show_viewport |-> TRUE]
ArmatureHidden == [name |-> "Armature", type |-> "ARMATURE", show_viewport |-> FALSE]
Subsurf == [name |-> "Subdivision", type |-> "SUBSURF", show_viewport |-> TRUE]

\* The modifier stacks of the left and the right eyeball.
EyeMods ==
  {<<m, m>> : m \in {<<ArmatureShown>>, <<ArmatureHidden>>, <<>>, <<Subsurf, ArmatureHidden, ArmatureShown>>}}
    \cup {<< <<ArmatureShown>>, <<ArmatureHidden>> >>}

\* The shape keys an eyeball starts with: some of Basis, its look-up key and
\* its look-in key, in any order.
EyeKeyLists(side) ==
  LET names == <<"Basis", ShapeName("Up", side), ShapeName("In", side)>>
      orders == DistinctSeqs(1..3, MaxEyeKeys)
  IN [q \in orders |->
        [i \in 1..Len(q) |-> [name |-> <<names[q[i]], 0>>, baked |-> FALSE, pose |-> {}]]]

EyesStart ==
  /\ ecfg = 1 /\ edir = 1 /\ eactive = "none"

InitEyes ==
  /\ OVERRIDE_EXISTING \in BOOLEAN
  /\ eobjs \in {EyeObjs} \cup {EyeObjs \ {x} : x \in EyeObjs}
  /\ epose \in EyePoses
  /\ epose0 = epose
  /\ \E q \in DistinctSeqs(1..3, MaxEyeKeys) :
       ekeys = [m \in {LEFT.mesh, RIGHT.mesh} |->
                  IF m = LEFT.mesh THEN EyeKeyLists("Left")[q] ELSE EyeKeyLists("Right")[q]]
  /\ ekeys0 = ekeys
  /\ \E mm \in EyeMods : emods = [m \in {LEFT.mesh, RIGHT.mesh} |-> IF m = LEFT.mesh THEN mm[1] ELSE mm[2]]
  /\ epc = "start"
  /\ EyesStart
  /\ SceneIdle
  /\ ApplyIdle
  /\ OthersIdleEyes

NextEyes == EyeStart \/ EyePose \/ EyeSave \/ EyeCleanup

SpecEyes == InitEyes /\ [][NextEyes]_vars

----------------------------------------------------------------------------
\* Properties of build-avatarsdk-eyes (SpecEyes).

\* bake_eye was called with configuration c and has returned.
Returned(c) == epc = "done" \/ (c < ecfg /\ epc /= "idle")

\* The keys of a mesh whose name, suffix or not, is base.
KeysNamed(keys, base) == {i \in 1..Len(keys) : keys[i].name[1] = base}

\* The pose in which only bone is out of rest, turned by degrees about axis.
OnlyRotated(bone, axis, degrees) ==
  PoseOf([b \in DOMAIN epose |->
            IF b = bone
            THEN [Rest EXCEPT !.rotation_euler =
                    IF axis = "X" THEN <<degrees, 0, 0>> ELSE <<0, degrees, 0>>]
            ELSE Rest])

\* C12: with OVERRIDE_EXISTING as the script sets it (True), when
\* bake_eye(config) has returned the configured mesh has exactly one key for
\* each of eyeLookUp<Side>, eyeLookDown<Side>, eyeLookIn<Side> and
\* eyeLookOut<Side>, named so without suffix and baked in this run, and the
\* pose it was baked from has every bone at rest except the configured eye
\* bone, which is turned by the configured angle about X for Up and Down and
\* about Y for In and Out, its other two Euler components being zero.
C12_FourKeysBakedFromEyeOnlyPose ==
  OVERRIDE_EXISTING =>
    \A c \in 1..Len(Configs) : Returned(c) =>
      \A d \in 1..Len(Configs[c].rotations) :
        LET cfg == Configs[c]
            dir == cfg.rotations[d][1]
            keys == ekeys[cfg.mesh]
            named == KeysNamed(keys, ShapeName(dir, cfg.side))
        IN /\ Cardinality(named) = 1
           /\ \A i \in named :
                /\ keys[i].name[2] = 0
                /\ keys[i].baked
                /\ keys[i].pose = OnlyRotated(cfg.bone, IF dir \in {"Up", "Down"} THEN "X" ELSE "Y",
                                              cfg.rotations[d][2])

\* Both configurations were baked over existing look-up keys, from a pose in
\* which every bone was out of rest.
C12_Witness ==
  /\ epc = "done" /\ OVERRIDE_EXISTING
  /\ \A b \in DOMAIN epose0 : epose0[b] /= Rest
  /\ EyeHasKey(ekeys0[LEFT.mesh], "eyeLookUpLeft")
  /\ EyeHasKey(ekeys0[RIGHT.mesh], "eyeLookUpRight")

\* C13 (as claimed): with OVERRIDE_EXISTING = False, when bake_eye(config) has
\* returned, every look key the mesh had before is still there as it was, and
\* the mesh has no more keys for that direction than it had.
C13_ExistingKeysKeptNoneAdded ==
  ~OVERRIDE_EXISTING =>
    \A c \in 1..Len(Configs) : Returned(c) =>
      \A d \in 1..Len(Configs[c].rotations) :
        LET cfg == Configs[c]
            shape == ShapeName(cfg.rotations[d][1], cfg.side)
            keys == ekeys[cfg.mesh]
            keys0 == ekeys0[cfg.mesh]
        IN EyeHasKey(keys0, shape) =>
             /\ \A i \in 1..Len(keys0) : keys0[i].name[1] = shape =>
                  \E j \in 1..Len(keys) : keys[j] = keys0[i]
             /\ Cardinality(KeysNamed(keys, shape)) = Cardinality(KeysNamed(keys0, shape))

----------------------------------------------------------------------------
\* The add-on's copy_pose and its "Copy pose" operator.
\*
\* A bone name is a sequence of pieces of text, chosen so that a text of the
\* skip list occurs in a name exactly where it is one of the pieces.  A bone
\* matrix is a number of quarter turns about X and a translation; the
\* clipboard holds text as a sequence of tokens.

skip == <<"Buttock", "Breast", "Eye", "Jaw", "Orbicularis", "_End", "4">>

\* k in bone.name
NameContains(name, k) == \E i \in 1..Len(name) : name[i] = k

SkipBone_Never(name) == FALSE

\* any(k in bone.name for k in skip)
SkipBone(name) == \E j \in 1..Len(skip) : NameContains(name, skip[j])

\* Matrix.Identity(4)
Identity == [rot |-> 0, loc |-> <<0, 0, 0>>]

RECURSIVE TurnX(_, _)
\* A vector turned by k quarter turns about X.
TurnX(k, v) == IF k = 0 THEN v ELSE TurnX(k - 1, <<v[1], 0 - v[3], v[2]>>)

\* parent_matrix.inverted() @ matrix
LocalMatrix(pm, mx) ==
  [rot |-> (mx.rot - pm.rot) % 4,
   loc |-> TurnX((4 - pm.rot) % 4,
                 <<mx.loc[1] - pm.loc[1], mx.loc[2] - pm.loc[2], mx.loc[3] - pm.loc[3]>>)]

\* bone.parent.matrix if bone.parent else Matrix.Identity(4)
ParentMatrix(b) == IF b.parent /= 0 THEN pbones[b.parent].matrix ELSE Identity

\* ROOT_FIX @ q: a quarter turn back about X.
RootFix(q) == (q + 3) % 4

\* output[key] = value
Put(output, key, value) ==
  IF \E i \in 1..Len(output) : output[i].key = key
  THEN [i \in 1..Len(output) |-> IF output[i].key = key THEN [key |-> key, value |-> value] ELSE output[i]]
  ELSE Append(output, [key |-> key, value |-> value])

\* "Hips position": the entry of the first bone named Hips, if any.
HipsPosition(bs) ==
  IF \E i \in 1..Len(bs) : pbones[bs[i]].name = <<"Hips">>
  THEN LET h == pbones[bs[CHOOSE i \in 1..Len(bs) :
                            /\ pbones[bs[i]].name = <<"Hips">>
                            /\ \A j \in 1..(i - 1) : pbones[bs[j]].name /= <<"Hips">>]]
           pos == LocalMatrix(ParentMatrix(h), h.matrix).loc
       IN << [key |-> <<<<"Hips">>, "position">>, value |-> <<pos[1], pos[3], pos[2]>>] >>
  ELSE <<>>

\* The quaternion entry of a bone.
Quaternion(b) ==
  LET q == LocalMatrix(ParentMatrix(b), b.matrix).rot
  IN IF b.name = <<"Hips">> THEN RootFix(q) ELSE q

RECURSIVE BoneQuaternions(_, _, _, _)
\* "for bone in bones": the loop over the bones from position i on.
BoneQuaternions(output, bs, only_selected, i) ==
  IF i > Len(bs) THEN output
  ELSE LET b == pbones[bs[i]]
       IN IF only_selected /\ ~b.select THEN BoneQuaternions(output, bs, only_selected, i + 1)
          ELSE IF SkipBone(b.name) THEN BoneQuaternions(output, bs, only_selected, i + 1)
          ELSE BoneQuaternions(Put(output, <<b.name, "quaternion">>, Quaternion(b)),
                               bs, only_selected, i + 1)

\* json.dumps(output)
dumps(output) == <<"{">> \o output \o <<"}">>

copy_pose_Merge(bs, only_selected) ==
  IF clipboard /= <<>> /\ clipboard[1] = "{"
  THEN dumps(BoneQuaternions(SubSeq(clipboard, 2, Len(clipboard) - 1), bs, only_selected, 1))
  ELSE dumps(BoneQuaternions(HipsPosition(bs), bs, only_selected, 1))

\* copy_pose(bones, only_selected): the text it writes to the clipboard.
copy_pose(bs, only_selected) == dumps(BoneQuaternions(HipsPosition(bs), bs, only_selected, 1))

\* context.selected_pose_bones, in the order of the armature.
SelectedPoseBones == SelectSeq([i \in 1..Len(pbones) |-> i], LAMBDA i : pbones[i].select)

\* OPERATIONS_OT_copy_pose.poll
CopyPosePoll == pmode = "POSE" /\ SelectedPoseBones /= <<>>

\* The lists of bones a script can pass: any of the armature's pose bones,
\* in the armature's order.
BoneChoices ==
  {SelectSeq([i \in 1..Len(pbones) |-> i], LAMBDA i : i \in S) : S \in SUBSET (1..Len(pbones))}

\* A call copy_pose(bones, only_selected) from a script.
CopyPoseCall ==
  /\ pn < MaxCalls
  /\ pmode /= "idle"
  /\ \E bs \in BoneChoices, only_selected \in BOOLEAN :
       /\ clipboard' = copy_pose(bs, only_selected)
       /\ pcall' = [by |-> "call", bones |-> bs, only_selected |-> only_selected,
                    before |-> clipboard, result |-> "returned", reports |-> <<>>]
  /\ pn' = pn + 1
  /\ UNCHANGED <<pbones, pmode>>
  /\ UNCHANGED <<sceneVars, applyVars, notCopyPose>>

\* OPERATIONS_OT_copy_pose.execute.  Outside pose mode the context has no
\* selected pose bones (None) and copy_pose raises TypeError.
OpCopyPose ==
  /\ pn < MaxCalls
  /\ pmode /= "idle"
  /\ IF pmode = "POSE"
     THEN /\ clipboard' = copy_pose(SelectedPoseBones, TRUE)
          /\ pcall' = [by |-> "operator", bones |-> SelectedPoseBones, only_selected |-> TRUE,
                       before |-> clipboard, result |-> "FINISHED",
                       reports |-> << <<"INFO", "Output copied to clipboard">> >>]
     ELSE /\ clipboard' = clipboard
          /\ pcall' = [by |-> "operator", bones |-> <<>>, only_selected |-> TRUE,
                       before |-> clipboard, result |-> "raised", reports |-> <<>>]
  /\ pn' = pn + 1
  /\ UNCHANGED <<pbones, pmode>>
  /\ UNCHANGED <<sceneVars, applyVars, notCopyPose>>

----------------------------------------------------------------------------
\* The scenes of the "Copy pose" operator.

\* The pose bones of the armature: name, parent (0: none) and matrix.
PoseBones ==
  << [name |-> <<"Hips">>, parent |-> 0, matrix |-> [rot |-> 1, loc |-> <<0, 1, 9>>]],
     [name |-> <<"Spine">>, parent |-> 1, matrix |-> [rot |-> 3, loc |-> <<0, 1, 11>>]],
     [name |-> <<"Left", "Eye">>, parent |-> 2, matrix |-> [rot |-> 0, loc |-> <<1, 2, 16>>]],
     [name |-> <<"LeftToe", "_End">>, parent |-> 1, matrix |-> [rot |-> 2, loc |-> <<1, 3, 0>>]] >>

\* What the clipboard held before: some text, or an earlier copy of a pose.
OldClipboards ==
  {<<"text">>, dumps(<< [key |-> <<<<"Spine">>, "quaternion">>, value |-> 0] >>)}

NoCall ==
  [by |-> "none", bones |-> <<>>, only_selected |-> TRUE, before |-> <<>>,
   result |-> "none", reports |-> <<>>]

InitCopyPose ==
  /\ \E sel \in [1..Len(PoseBones) -> BOOLEAN] :
       pbones = [i \in 1..Len(PoseBones) |->
                   [name |-> PoseBones[i].name, parent |-> PoseBones[i].parent,
                    matrix |-> PoseBones[i].matrix, select |-> sel[i]]]
  /\ pmode \in {"POSE", "OBJECT"}
  /\ clipboard \in OldClipboards
  /\ pcall = NoCall
  /\ pn = 0
  /\ SceneIdle
  /\ ApplyIdle
  /\ OthersIdleCopyPose

NextCopyPose == CopyPoseCall \/ OpCopyPose

SpecCopyPose == InitCopyPose /\ [][NextCopyPose]_vars

----------------------------------------------------------------------------
\* Properties of copy_pose (SpecCopyPose).

\* The entries of a clipboard text written by copy_pose.
Entries(text) == SubSeq(text, 2, Len(text) - 1)

\* The bones whose quaternion has an entry in a clipboard text.
QuaternionBones(text) ==
  {Entries(text)[i].key[1] : i \in {j \in 1..Len(Entries(text)) : Entries(text)[j].key[2] = "quaternion"}}

\* The names of the skip list, as the claim lists them.
SkipTexts == {"Buttock", "Breast", "Eye", "Jaw", "Orbicularis", "_End", "4"}

\* C14: after a call of copy_pose that returned, the clipboard holds one JSON
\* object, and the bones with a '<bone>.quaternion' entry in it are exactly
\* the given bones that are selected (when only_selected is true) and whose
\* name contains none of the skip texts; nothing of what the clipboard held
\* before is left, also when no bone qualifies.
C14_ClipboardHoldsQualifyingBones ==
  pcall.result \in {"returned", "FINISHED"} =>
    /\ clipboard[1] = "{" /\ clipboard[Len(clipboard)] = "}"
    /\ QuaternionBones(clipboard) =
         {pbones[pcall.bones[i]].name : i \in
            {j \in 1..Len(pcall.bones) :
               /\ pcall.only_selected => pbones[pcall.bones[j]].select
               /\ \A t \in SkipTexts : \A k \in 1..Len(pbones[pcall.bones[j]].name) :
                    pbones[pcall.bones[j]].name[k] /= t}}
    /\ \A i \in 1..Len(Entries(clipboard)) :
         Entries(clipboard)[i].key[2] \in {"quaternion", "position"}

\* A second call, given an unselected bone, a bone to skip and no bone that
\* qualifies, replaced an earlier copy that had a quaternion entry.
C14_Witness ==
  /\ pcall.result = "returned" /\ pcall.only_selected
  /\ pn = 2
  /\ pcall.before /= <<>> /\ pcall.before[1] = "{" /\ QuaternionBones(pcall.before) /= {}
  /\ \E i \in 1..Len(pcall.bones) : ~pbones[pcall.bones[i]].select
  /\ \E i \in 1..Len(pcall.bones) : SkipBone(pbones[pcall.bones[i]].name)
  /\ QuaternionBones(clipboard) = {}

----------------------------------------------------------------------------
\* The add-on's scale_character and its "Scale character" operator.
\*
\* Lengths are rationals <<numerator, denominator>> in hundredths (1.0 is
\* <<100, 1>>), scales are rationals.  Objects are not rotated.  A mesh
\* records its size in the world: the product of the scales above it.

\* target_z = 1.0
target_z == 100

RECURSIVE GCD(_, _)
GCD(a, b) == IF b = 0 THEN a ELSE GCD(b, a % b)

Abs(n) == IF n < 0 THEN 0 - n ELSE n

\* A rational in lowest terms with a positive denominator.
Rat(n, d) ==
  LET g == GCD(Abs(n), Abs(d))
      s == IF d < 0 THEN 0 - 1 ELSE 1
  IN <<(s * n) \div g, (s * d) \div g>>

RMul(a, b) == Rat(a[1] * b[1], a[2] * b[2])
RAdd(a, b) == Rat(a[1] * b[2] + b[1] * a[2], a[2] * b[2])
RDiv(a, b) == Rat(a[1] * b[2], a[2] * b[1])

\* (arm.matrix_world @ pose_bone.head).z
HipsWorldZ(arm) == RAdd(arm.loc_z, RMul(arm.scale, arm.head_z))

\* abs(current_z) < 1e-6, that is less than a ten-thousandth of a hundredth
TooSmall(z) == Abs(z[1]) * 10000 < z[2]

\* scale_factor = target_z / current_z
ScaleFactor(current_z) == RDiv(<<target_z, 1>>, current_z)

\* "arm.scale *= scale_factor" and view_layer.update(): the armature is
\* scaled about its origin, and what is parented to it follows.
ScaleArmature(objs, a, f) ==
  [o \in DOMAIN objs |->
     IF o = a THEN [objs[o] EXCEPT !.scale = RMul(objs[o].scale, f)]
     ELSE IF objs[o].parent = a THEN [objs[o] EXCEPT !.size = RMul(objs[o].size, f)]
     ELSE objs[o]]

\* transform_apply(scale=True) on the armature: its scale goes into its
\* bones and becomes 1; its children stay where they are.
TransformApply(objs, a) ==
  [objs EXCEPT ![a].head_z = RMul(objs[a].head_z, objs[a].scale), ![a].scale = <<1, 1>>]

\* scale_character(selected_objects): the objects, the selection and the
\* active object it leaves, and how it ended.
scale_character(objs, sel, act) ==
  IF sel = <<>> THEN [objs |-> objs, sel |-> sel, act |-> act, end |-> "returned", f |-> <<0, 1>>]
  ELSE IF objs[sel[1]].type /= "ARMATURE"
  THEN [objs |-> objs, sel |-> sel, act |-> act, end |-> "returned", f |-> <<0, 1>>]
  ELSE IF ~objs[sel[1]].hips
  THEN [objs |-> objs, sel |-> sel, act |-> act, end |-> "raised", f |-> <<0, 1>>]
  ELSE IF TooSmall(HipsWorldZ(objs[sel[1]]))
  THEN [objs |-> objs, sel |-> sel, act |-> act, end |-> "raised", f |-> <<0, 1>>]
  ELSE LET f == ScaleFactor(HipsWorldZ(objs[sel[1]]))
       IN [objs |-> TransformApply(ScaleArmature(objs, sel[1], f), sel[1]),
           sel |-> <<sel[1]>>, act |-> sel[1], end |-> "scaled", f |-> f]

\* OPERATIONS_OT_scale_character.poll
ScalePoll == Len(sselected) = 1 /\ sobj[sselected[1]].type = "ARMATURE"

\* OPERATIONS_OT_scale_character.execute
OpScaleCharacter ==
  /\ sn < MaxCalls
  /\ sobj /= <<>>
  /\ IF Len(sselected) /= 1 \/ sobj[sselected[1]].type /= "ARMATURE"
     THEN /\ scall' = [result |-> "CANCELLED",
                       reports |-> << <<"ERROR", "Select only one armature object">> >>,
                       before |-> sobj, f |-> <<0, 1>>]
          /\ UNCHANGED <<sobj, sselected, sactive>>
     ELSE LET r == scale_character(sobj, sselected, sactive)
          IN /\ sobj' = r.objs
             /\ sselected' = r.sel
             /\ sactive' = r.act
             /\ scall' = IF r.end = "raised"
                         THEN [result |-> "raised", reports |-> <<>>, before |-> sobj, f |-> r.f]
                         ELSE [result |-> "FINISHED",
                               reports |-> << <<"INFO", "Character scaled.">> >>,
                               before |-> sobj, f |-> r.f]
  /\ sn' = sn + 1
  /\ UNCHANGED <<sceneVars, applyVars, notScale>>

----------------------------------------------------------------------------
\* The scenes of the "Scale character" operator: an armature, a mesh
\* parented to it and a mesh of its own.

ScaleScene(loc, sc, head, hips) ==
  << [type |-> "ARMATURE", parent |-> 0, loc_z |-> <<loc, 1>>, scale |-> <<sc, 1>>,
      head_z |-> <<head, 1>>, hips |-> hips, size |-> <<sc, 1>>],
     [type |-> "MESH", parent |-> 1, loc_z |-> <<0, 1>>, scale |-> <<1, 1>>,
      head_z |-> <<0, 1>>, hips |-> FALSE, size |-> <<sc, 1>>],
     [type |-> "MESH", parent |-> 0, loc_z |-> <<0, 1>>, scale |-> <<1, 1>>,
      head_z |-> <<0, 1>>, hips |-> FALSE, size |-> <<1, 1>>] >>

InitScale ==
  /\ \E loc \in {0, 50}, sc \in {1, 2}, head \in {0, 50, 100, 200}, hips \in BOOLEAN :
       sobj = ScaleScene(loc, sc, head, hips)
  /\ sselected \in {<<1>>, <<2>>, <<1, 2>>, <<>>}
  /\ sactive \in {0, 2}
  /\ scall = [result |-> "none", reports |-> <<>>, before |-> <<>>, f |-> <<0, 1>>]
  /\ sn = 0
  /\ SceneIdle
  /\ ApplyIdle
  /\ OthersIdleScale

NextScale == OpScaleCharacter

SpecScale == InitScale /\ [][NextScale]_vars

----------------------------------------------------------------------------
\* Properties of "Scale character" (SpecScale).

\* The armature the operator scaled.
ScaledArm == sselected[1]

\* C15 (as claimed): when the operator has finished, the armature and the
\* meshes parented to it are larger by the same factor, target_z over the
\* world height the Hips head had, and the Hips head is at world height 1.0.
C15_HipsAtTargetHeight ==
  scall.result = "FINISHED" =>
    LET before == scall.before
        f == RDiv(<<target_z, 1>>, HipsWorldZ(before[ScaledArm]))
    IN /\ RMul(sobj[ScaledArm].scale, sobj[ScaledArm].head_z)
            = RMul(f, RMul(before[ScaledArm].scale, before[ScaledArm].head_z))
       /\ \A o \in DOMAIN sobj : sobj[o].parent = ScaledArm =>
            sobj[o].size = RMul(f, before[o].size)
       /\ HipsWorldZ(sobj[ScaledArm]) = <<target_z, 1>>

----------------------------------------------------------------------------
\* The add-on's fix_bone_axes and its two "Fix bone axes" operators.
\*
\* The reference tables: bone name and reference Z axis, the numbers as the
\* source writes them.  A bone's roll is either the roll it had or the roll
\* align_roll gives it for a reference axis.

BONE_AXES_DATA_A ==
  <<
    [name |-> "Hips", ref_z |-> <<"-5.2e-05", "-0.998203", "0.059929">>],
    [name |-> "Spine", ref_z |-> <<"0.0", "-0.996171", "0.087425">>],
    [name |-> "Spine1", ref_z |-> <<"0.0", "-0.987185", "0.159581">>],
    [name |-> "Spine2", ref_z |-> <<"0.0", "-0.999456", "0.032991">>],
    [name |-> "Neck", ref_z |-> <<"0.0", "-0.969599", "-0.244701">>],
    [name |-> "Head", ref_z |-> <<"0.0", "-0.990155", "-0.139976">>],
    [name |-> "HeadTop_End", ref_z |-> <<"0.0", "-0.999963", "0.008631">>],
    [name |-> "LeftEye", ref_z |-> <<"0.0", "-1.0", "-1e-06">>],
    [name |-> "RightEye", ref_z |-> <<"0.0", "-1.0", "-1e-06">>],
    [name |-> "LeftShoulder", ref_z |-> <<"-0.151138", "-0.082852", "-0.985034">>],
    [name |-> "LeftArm", ref_z |-> <<"-0.815869", "-0.021867", "-0.577823">>],
    [name |-> "LeftForeArm", ref_z |-> <<"-0.834663", "-0.033902", "-0.549716">>],
    [name |-> "LeftHand", ref_z |-> <<"-0.871253", "-0.240784", "-0.427717">>],
    [name |-> "LeftHandThumb1", ref_z |-> <<"-0.979576", "0.01469", "-0.200537">>],
    [name |-> "LeftHandThumb2", ref_z |-> <<"-0.990165", "0.050792", "-0.130362">>],
    [name |-> "LeftHandThumb3", ref_z |-> <<"-0.990548", "0.133887", "-0.029803">>],
    [name |-> "LeftHandThumb4", ref_z |-> <<"-0.982724", "0.143109", "-0.117362">>],
    [name |-> "LeftHandIndex1", ref_z |-> <<"-0.952265", "-0.172639", "-0.251768">>],
    [name |-> "LeftHandIndex2", ref_z |-> <<"-0.997518", "0.069974", "0.00784">>],
    [name |-> "LeftHandIndex3", ref_z |-> <<"-0.952339", "0.112914", "0.283375">>],
    [name |-> "LeftHandIndex4", ref_z |-> <<"-0.981243", "0.138231", "0.134369">>],
    [name |-> "LeftHandMiddle1", ref_z |-> <<"-0.95345", "-0.167392", "-0.250825">>],
    [name |-> "LeftHandMiddle2", ref_z |-> <<"-0.999991", "-0.003639", "0.002207">>],
    [name |-> "LeftHandMiddle3", ref_z |-> <<"-0.957252", "0.115679", "0.265117">>],
    [name |-> "LeftHandMiddle4", ref_z |-> <<"-0.990951", "0.050408", "0.124401">>],
    [name |-> "LeftHandRing1", ref_z |-> <<"-0.973135", "-0.11216", "-0.201068">>],
    [name |-> "LeftHandRing2", ref_z |-> <<"-0.992599", "0.026764", "0.118453">>],
    [name |-> "LeftHandRing3", ref_z |-> <<"-0.982528", "0.021169", "0.184907">>],
    [name |-> "LeftHandRing4", ref_z |-> <<"-0.988071", "0.017294", "0.153022">>],
    [name |-> "LeftHandPinky1", ref_z |-> <<"-0.991241", "-0.110026", "-0.073046">>],
    [name |-> "LeftHandPinky2", ref_z |-> <<"-0.995879", "-0.021261", "0.088166">>],
    [name |-> "LeftHandPinky3", ref_z |-> <<"-0.95455", "-0.050898", "0.293674">>],
    [name |-> "LeftHandPinky4", ref_z |-> <<"-0.977236", "-0.023028", "0.210903">>],
    [name |-> "RightShoulder", ref_z |-> <<"0.151135", "-0.082851", "-0.985035">>],
    [name |-> "RightArm", ref_z |-> <<"0.815869", "-0.021866", "-0.577823">>],
    [name |-> "RightForeArm", ref_z |-> <<"0.834662", "-0.033902", "-0.549718">>],
    [name |-> "RightHand", ref_z |-> <<"0.871253", "-0.240786", "-0.427716">>],
    [name |-> "RightHandThumb1", ref_z |-> <<"0.979575", "0.01469", "-0.200541">>],
    [name |-> "RightHandThumb2", ref_z |-> <<"0.990162", "0.050799", "-0.130378">>],
    [name |-> "RightHandThumb3", ref_z |-> <<"0.990548", "0.133889", "-0.029803">>],
    [name |-> "RightHandThumb4", ref_z |-> <<"0.982726", "0.143103", "-0.11735">>],
    [name |-> "RightHandIndex1", ref_z |-> <<"0.952265", "-0.172638", "-0.25177">>],
    [name |-> "RightHandIndex2", ref_z |-> <<"0.997517", "0.069984", "0.007823">>],
    [name |-> "RightHandIndex3", ref_z |-> <<"0.952336", "0.112908", "0.283387">>],
    [name |-> "RightHandIndex4", ref_z |-> <<"0.981243", "0.138224", "0.134377">>],
    [name |-> "RightHandMiddle1", ref_z |-> <<"0.95345", "-0.167392", "-0.250825">>],
    [name |-> "RightHandMiddle2", ref_z |-> <<"0.999991", "-0.003634", "0.002195">>],
    [name |-> "RightHandMiddle3", ref_z |-> <<"0.957253", "0.115682", "0.265111">>],
    [name |-> "RightHandMiddle4", ref_z |-> <<"0.990952", "0.050412", "0.124391">>],
    [name |-> "RightHandRing1", ref_z |-> <<"0.973135", "-0.112159", "-0.20107">>],
    [name |-> "RightHandRing2", ref_z |-> <<"0.992599", "0.026759", "0.118457">>],
    [name |-> "RightHandRing3", ref_z |-> <<"0.982531", "0.02118", "0.184889">>],
    [name |-> "RightHandRing4", ref_z |-> <<"0.98807", "0.017285", "0.153033">>],
    [name |-> "RightHandPinky1", ref_z |-> <<"0.991241", "-0.110026", "-0.07305">>],
    [name |-> "RightHandPinky2", ref_z |-> <<"0.99588", "-0.021254", "0.088156">>],
    [name |-> "RightHandPinky3", ref_z |-> <<"0.954545", "-0.050908", "0.293686">>],
    [name |-> "RightHandPinky4", ref_z |-> <<"0.977238", "-0.023023", "0.210895">>],
    [name |-> "LeftUpLeg", ref_z |-> <<"-7.5e-05", "-0.998602", "-0.052867">>],
    [name |-> "LeftLeg", ref_z |-> <<"0.004224", "-0.991791", "-0.127801">>],
    [name |-> "LeftFoot", ref_z |-> <<"0.001783", "-0.615151", "0.788407">>],
    [name |-> "LeftToeBase", ref_z |-> <<"0.003772", "0.011869", "0.999922">>],
    [name |-> "LeftToe_End", ref_z |-> <<"-0.999999", "0.000551", "-0.001637">>],
    [name |-> "RightUpLeg", ref_z |-> <<"8.2e-05", "-0.998602", "-0.052868">>],
    [name |-> "RightLeg", ref_z |-> <<"-0.004216", "-0.99179", "-0.127804">>],
    [name |-> "RightFoot", ref_z |-> <<"-0.001774", "-0.615152", "0.788406">>],
    [name |-> "RightToeBase", ref_z |-> <<"-0.003964", "0.011892", "0.999921">>],
    [name |-> "RightToe_End", ref_z |-> <<"0.999998", "0.000574", "-0.001683">>]
  >>

BONE_AXES_DATA_T ==
  <<
    [name |-> "Head", ref_z |-> <<"3.81044e-07", "-0.990155", "-0.139976">>],
    [name |-> "HeadTop_End", ref_z |-> <<"2.93097e-07", "-0.999963", "0.00863087">>],
    [name |-> "Hips", ref_z |-> <<"-5.23035e-05", "-0.998203", "0.0599285">>],
    [name |-> "LeftArm", ref_z |-> <<"0.00021426", "0.022599", "-0.999745">>],
    [name |-> "LeftEye", ref_z |-> <<"3.09573e-07", "-1", "-4.76837e-07">>],
    [name |-> "LeftFoot", ref_z |-> <<"0.0541387", "-0.600338", "0.797912">>],
    [name |-> "LeftForeArm", ref_z |-> <<"-0.0341937", "0.0119785", "-0.999343">>],
    [name |-> "LeftHand", ref_z |-> <<"0.0907265", "-0.16043", "-0.982869">>],
    [name |-> "LeftHandIndex1", ref_z |-> <<"-0.0292601", "-0.187298", "-0.981867">>],
    [name |-> "LeftHandIndex2", ref_z |-> <<"-0.0339214", "-0.121124", "-0.992058">>],
    [name |-> "LeftHandIndex3", ref_z |-> <<"-0.0334821", "-0.213779", "-0.976308">>],
    [name |-> "LeftHandIndex4", ref_z |-> <<"0.091196", "-0.124351", "-0.988039">>],
    [name |-> "LeftHandMiddle1", ref_z |-> <<"-0.0301688", "-0.174304", "-0.98423">>],
    [name |-> "LeftHandMiddle2", ref_z |-> <<"-0.033935", "-0.128504", "-0.991128">>],
    [name |-> "LeftHandMiddle3", ref_z |-> <<"-0.0339587", "-0.142883", "-0.989157">>],
    [name |-> "LeftHandMiddle4", ref_z |-> <<"0.124358", "-0.132995", "-0.983284">>],
    [name |-> "LeftHandPinky1", ref_z |-> <<"-0.029454", "-0.149489", "-0.988325">>],
    [name |-> "LeftHandPinky2", ref_z |-> <<"-0.0339946", "-0.0815342", "-0.996091">>],
    [name |-> "LeftHandPinky3", ref_z |-> <<"-0.0338747", "-0.15072", "-0.987996">>],
    [name |-> "LeftHandPinky4", ref_z |-> <<"0.045214", "-0.107585", "-0.993167">>],
    [name |-> "LeftHandRing1", ref_z |-> <<"-0.0294886", "-0.135611", "-0.990323">>],
    [name |-> "LeftHandRing2", ref_z |-> <<"-0.034015", "-0.0966198", "-0.99474">>],
    [name |-> "LeftHandRing3", ref_z |-> <<"-0.0340394", "-0.122593", "-0.991873">>],
    [name |-> "LeftHandRing4", ref_z |-> <<"-0.00197432", "-0.116866", "-0.993146">>],
    [name |-> "LeftHandThumb1", ref_z |-> <<"-0.454559", "0.115889", "-0.883145">>],
    [name |-> "LeftHandThumb2", ref_z |-> <<"-0.47989", "0.0847829", "-0.873222">>],
    [name |-> "LeftHandThumb3", ref_z |-> <<"-0.477725", "0.0894662", "-0.873942">>],
    [name |-> "LeftHandThumb4", ref_z |-> <<"-0.39936", "0.107931", "-0.910419">>],
    [name |-> "LeftLeg", ref_z |-> <<"-0.0025901", "-0.997624", "-0.0688498">>],
    [name |-> "LeftShoulder", ref_z |-> <<"0.0955264", "-0.0356792", "-0.994787">>],
    [name |-> "LeftToeBase", ref_z |-> <<"0.0485404", "0.0274734", "0.998443">>],
    [name |-> "LeftToe_End", ref_z |-> <<"-0.999978", "0.00660707", "0.000249416">>],
    [name |-> "LeftUpLeg", ref_z |-> <<"-0.00191275", "-0.999998", "0.000967459">>],
    [name |-> "Neck", ref_z |-> <<"2.55582e-07", "-0.969599", "-0.244701">>],
    [name |-> "RightArm", ref_z |-> <<"-0.000215599", "0.0225984", "-0.999745">>],
    [name |-> "RightEye", ref_z |-> <<"3.09573e-07", "-1", "-4.76837e-07">>],
    [name |-> "RightFoot", ref_z |-> <<"-0.0541308", "-0.600241", "0.797985">>],
    [name |-> "RightForeArm", ref_z |-> <<"0.0341911", "0.0119773", "-0.999344">>],
    [name |-> "RightHand", ref_z |-> <<"-0.0907132", "-0.160435", "-0.982869">>],
    [name |-> "RightHandIndex1", ref_z |-> <<"0.0292433", "-0.187301", "-0.981867">>],
    [name |-> "RightHandIndex2", ref_z |-> <<"0.0339327", "-0.121103", "-0.99206">>],
    [name |-> "RightHandIndex3", ref_z |-> <<"0.0334897", "-0.213786", "-0.976306">>],
    [name |-> "RightHandIndex4", ref_z |-> <<"-0.0911881", "-0.124356", "-0.988039">>],
    [name |-> "RightHandMiddle1", ref_z |-> <<"0.0301564", "-0.174307", "-0.984229">>],
    [name |-> "RightHandMiddle2", ref_z |-> <<"0.0338937", "-0.128498", "-0.99113">>],
    [name |-> "RightHandMiddle3", ref_z |-> <<"0.0339647", "-0.142883", "-0.989157">>],
    [name |-> "RightHandMiddle4", ref_z |-> <<"-0.124356", "-0.132992", "-0.983285">>],
    [name |-> "RightHandPinky1", ref_z |-> <<"0.0294101", "-0.149479", "-0.988327">>],
    [name |-> "RightHandPinky2", ref_z |-> <<"0.0339885", "-0.0815093", "-0.996093">>],
    [name |-> "RightHandPinky3", ref_z |-> <<"0.0339319", "-0.150714", "-0.987995">>],
    [name |-> "RightHandPinky4", ref_z |-> <<"-0.045171", "-0.107558", "-0.993172">>],
    [name |-> "RightHandRing1", ref_z |-> <<"0.0294796", "-0.135614", "-0.990323">>],
    [name |-> "RightHandRing2", ref_z |-> <<"0.034038", "-0.0966193", "-0.994739">>],
    [name |-> "RightHandRing3", ref_z |-> <<"0.0340057", "-0.12257", "-0.991877">>],
    [name |-> "RightHandRing4", ref_z |-> <<"0.00196401", "-0.11687", "-0.993145">>],
    [name |-> "RightHandThumb1", ref_z |-> <<"0.454551", "0.115871", "-0.883152">>],
    [name |-> "RightHandThumb2", ref_z |-> <<"0.479888", "0.0847768", "-0.873224">>],
    [name |-> "RightHandThumb3", ref_z |-> <<"0.477711", "0.0894437", "-0.873952">>],
    [name |-> "RightHandThumb4", ref_z |-> <<"0.399355", "0.1079", "-0.910425">>],
    [name |-> "RightLeg", ref_z |-> <<"0.00260206", "-0.997627", "-0.0687953">>],
    [name |-> "RightShoulder", ref_z |-> <<"-0.0955169", "-0.0356809", "-0.994788">>],
    [name |-> "RightToeBase", ref_z |-> <<"-0.0487178", "0.0275893", "0.998431">>],
    [name |-> "RightToe_End", ref_z |-> <<"0.99906", "0.00601406", "0.0429352">>],
    [name |-> "RightUpLeg", ref_z |-> <<"0.00192306", "-0.999998", "0.00102428">>],
    [name |-> "Spine", ref_z |-> <<"3.02932e-07", "-0.996171", "0.0874251">>],
    [name |-> "Spine1", ref_z |-> <<"4.99894e-07", "-0.987185", "0.159582">>],
    [name |-> "Spine2", ref_z |-> <<"2.4899e-07", "-0.999456", "0.0329908">>]
  >>

\* name in edit_bones
HasBone(bs, name) == \E i \in 1..Len(bs) : bs[i].name = name

AlignRoll_All(bs, name, ref_z) ==
  [i \in 1..Len(bs) |-> [bs[i] EXCEPT !.roll = <<"aligned", ref_z>>]]

\* edit_bones[name].align_roll(ref_z)
AlignRoll(bs, name, ref_z) ==
  [i \in 1..Len(bs) |-> IF bs[i].name = name THEN [bs[i] EXCEPT !.roll = <<"aligned", ref_z>>] ELSE bs[i]]

FixStep_SkipUncounted(st, e) ==
  IF ~HasBone(st.bones, e.name) THEN st
  ELSE [bones |-> AlignRoll(st.bones, e.name, e.ref_z), applied |-> st.applied + 1, skipped |-> st.skipped]

\* One turn of "for name, ref_z in reference_data.items()".
FixStep(st, e) ==
  IF ~HasBone(st.bones, e.name)
  THEN [st EXCEPT !.skipped = st.skipped + 1]
  ELSE [bones |-> AlignRoll(st.bones, e.name, e.ref_z), applied |-> st.applied + 1, skipped |-> st.skipped]

RECURSIVE FixLoop(_, _, _)
\* The loop over the reference table from entry j on.
FixLoop(st, tbl, j) ==
  IF j > Len(tbl) THEN st
  ELSE LET next == FixStep(st, tbl[j])
       IN IF next = st THEN FixLoop(st, tbl, j + 1) ELSE FixLoop(next, tbl, j + 1)

\* fix_bone_axes(selected_objects, reference_data): the objects and the
\* active object it leaves, and the counts it prints.
fix_bone_axes(objs, sel, act, reference_data) ==
  IF sel = <<>> THEN [objs |-> objs, act |-> act, applied |-> 0, skipped |-> 0, end |-> "returned"]
  ELSE IF objs[sel[1]].type /= "ARMATURE"
  THEN [objs |-> objs, act |-> act, applied |-> 0, skipped |-> 0, end |-> "returned"]
  ELSE LET arm == sel[1]
           prev_mode == objs[arm].mode
           st == FixLoop([bones |-> objs[arm].bones, applied |-> 0, skipped |-> 0], reference_data, 1)
       IN [objs |-> [objs EXCEPT ![arm].bones = st.bones, ![arm].mode = prev_mode],
           act |-> arm, applied |-> st.applied, skipped |-> st.skipped, end |-> "printed"]

\* The table of an operator: "a" for the A-pose, "t" for the T-pose.
ReferenceData(op) == IF op = "a" THEN BONE_AXES_DATA_A ELSE BONE_AXES_DATA_T

\* OPERATIONS_OT_fix_bone_axes_a.poll / OPERATIONS_OT_fix_bone_axes_t.poll
FixPoll == Len(fselected) = 1 /\ fobj[fselected[1]].type = "ARMATURE"

\* execute of a "Fix bone axes" operator.
OpFixBoneAxes(op) ==
  /\ fn < MaxCalls
  /\ fobj /= <<>>
  /\ IF Len(fselected) /= 1 \/ fobj[fselected[1]].type /= "ARMATURE"
     THEN /\ fcall' = [op |-> op, result |-> "CANCELLED",
                       reports |-> << <<"ERROR", "Select only one armature object">> >>,
                       before |-> fobj, applied |-> 0, skipped |-> 0]
          /\ UNCHANGED <<fobj, factive>>
     ELSE LET r == fix_bone_axes(fobj, fselected, factive, ReferenceData(op))
          IN /\ fobj' = r.objs
             /\ factive' = r.act
             /\ fcall' = [op |-> op, result |-> "FINISHED",
                          reports |-> << <<"INFO", "Bone axes fixed.">> >>,
                          before |-> fobj, applied |-> r.applied, skipped |-> r.skipped]
  /\ fn' = fn + 1
  /\ UNCHANGED fselected
  /\ UNCHANGED <<sceneVars, applyVars, notFix>>

\* OPERATIONS_OT_fix_bone_axes_a.execute
OpFixBoneAxesA == OpFixBoneAxes("a")

\* OPERATIONS_OT_fix_bone_axes_t.execute
OpFixBoneAxesT == OpFixBoneAxes("t")

----------------------------------------------------------------------------
\* The scenes of the "Fix bone axes" operators: an armature, a mesh and a
\* second armature.

\* Bone names: three of the reference tables and two that are in neither.
FixBoneNames == <<"Hips", "Root", "LeftEye", "Tail", "RightToe_End">>

\* The bones of the first armature: any of the names, each with its own roll.
FixBones(S) ==
  LET idx == SelectSeq([i \in 1..Len(FixBoneNames) |-> i], LAMBDA i : i \in S)
  IN [k \in 1..Len(idx) |-> [name |-> FixBoneNames[idx[k]], roll |-> <<"roll", <<idx[k]>> >>]]

FixScene(S, mode) ==
  << [type |-> "ARMATURE", mode |-> mode, bones |-> FixBones(S)],
     [type |-> "MESH", mode |-> "OBJECT", bones |-> <<>>],
     [type |-> "ARMATURE", mode |-> "OBJECT", bones |-> FixBones({1, 4})] >>

InitFix ==
  /\ \E S \in SUBSET (1..Len(FixBoneNames)), mode \in {"OBJECT", "POSE", "EDIT"} :
       fobj = FixScene(S, mode)
  /\ fselected \in {<<1>>, <<2>>, <<1, 3>>, <<>>}
  /\ factive \in {0, 2}
  /\ fcall = [op |-> "none", result |-> "none", reports |-> <<>>, before |-> <<>>,
              applied |-> 0, skipped |-> 0]
  /\ fn = 0
  /\ SceneIdle
  /\ ApplyIdle
  /\ OthersIdleFix

NextFix == OpFixBoneAxesA \/ OpFixBoneAxesT

SpecFix == InitFix /\ [][NextFix]_vars

----------------------------------------------------------------------------
\* Properties of "Fix bone axes" (SpecFix).

\* The names of a reference table.
RefNames(tbl) == {tbl[j].name : j \in 1..Len(tbl)}

\* The reference axis a table has for a name.
RefZ(tbl, name) == tbl[CHOOSE j \in 1..Len(tbl) : tbl[j].name = name].ref_z

\* C16: when a "Fix bone axes" operator has finished, every bone of the
\* selected armature whose name is in the operator's reference table has the
\* roll aligned to its reference axis, every other bone of that armature and
\* every other object is as it was, applied + skipped is the size of the
\* table, and skipped is the number of table names the armature lacks.
C16_RollAlignedForTableBones ==
  fcall.result = "FINISHED" =>
    LET tbl == IF fcall.op = "a" THEN BONE_AXES_DATA_A ELSE BONE_AXES_DATA_T
        arm == fselected[1]
        bs == fobj[arm].bones
        bs0 == fcall.before[arm].bones
    IN /\ Len(bs) = Len(bs0)
       /\ \A i \in 1..Len(bs) :
            /\ bs[i].name = bs0[i].name
            /\ bs[i].roll = IF bs[i].name \in RefNames(tbl)
                            THEN <<"aligned", RefZ(tbl, bs[i].name)>>
                            ELSE bs0[i].roll
       /\ \A o \in DOMAIN fobj : o /= arm => fobj[o] = fcall.before[o]
       /\ fcall.applied + fcall.skipped = Cardinality(RefNames(tbl))
       /\ fcall.skipped = Cardinality({n \in RefNames(tbl) : \A i \in 1..Len(bs0) : bs0[i].name /= n})

\* The T-pose operator finished after the A-pose operator on an armature
\* with bones of the table and bones outside it.
C16_Witness ==
  /\ fcall.result = "FINISHED" /\ fcall.op = "t" /\ fn = 2
  /\ fcall.applied = 2 /\ fcall.skipped = 65
  /\ \E i \in 1..Len(fobj[fselected[1]].bones) : fobj[fselected[1]].bones[i].name = "Tail"
  /\ \E i \in 1..Len(fcall.before[fselected[1]].bones) :
       fcall.before[fselected[1]].bones[i].roll[1] = "aligned"

----------------------------------------------------------------------------
\* The add-on's "Build ARKit and Oculus" operator, build_targets and
\* bake_target.
\*
\* Names of modules and of archive members are sequences of pieces of text.
\* The archive is a readable zip file whose target files are well formed; a
\* target file is kept as what bake_target makes of it: whether it moves
\* some vertex by more than limit_size.

\* name.lower(), piece by piece
Lower(p) ==
  CASE p = "MPFB" -> "mpfb"
    [] p = ".TARGET" -> ".target"
    [] OTHER -> p

\* "mpfb" in name.lower() and hasattr(mod, "services")
IsMpfb(mod) ==
  /\ \E i \in 1..Len(mod.name) : Lower(mod.name[i]) = "mpfb"
  /\ mod.services

\* The loop over sys.modules: the first module that qualifies, 0 for None.
FindMpfb(mods) ==
  IF \E i \in 1..Len(mods) : IsMpfb(mods[i])
  THEN CHOOSE i \in 1..Len(mods) : IsMpfb(mods[i]) /\ \A j \in 1..(i - 1) : ~IsMpfb(mods[j])
  ELSE 0

\* [obj for obj in context.selected_objects if obj.type == 'MESH']
SelectedMeshes(objs, sel) == SelectSeq(sel, LAMBDA o : objs[o].type = "MESH")

\* path.exists() and path.is_dir()
IsDir(fs, path) == <<path, "dir">> \in fs

\* get_addon_dir()
get_addon_dir == <<"addon">>

\* get_data_dir()
get_data_dir(prefs, fs) ==
  IF prefs.data_path /= <<>> /\ IsDir(fs, prefs.data_path) THEN prefs.data_path ELSE get_addon_dir

\* data_dir / "talkinghead-targets.zip"
ZipPath(dir) == dir \o <<"talkinghead-targets.zip">>

ZipMissing_Never(fs, path) == FALSE

\* not zip_path.exists() or not zip_path.is_file()
ZipMissing(fs, path) == ~(\E kind \in {"file", "dir"} : <<path, kind>> \in fs) \/ <<path, "file">> \notin fs

\* TargetService.has_target(mesh, name)
HasTarget(keys, name) == \E i \in 1..Len(keys) : keys[i].name = name

\* bake_target(mpfb, name, dict, mesh): the mesh afterwards.
bake_target(name, big, mesh) ==
  IF ~mesh.basemesh /\ ~mesh.mhclo THEN mesh
  ELSE IF ~big THEN mesh
  ELSE IF HasTarget(mesh.keys, name)
  THEN [mesh EXCEPT !.keys = [i \in 1..Len(mesh.keys) |->
                                IF mesh.keys[i].name = name
                                THEN [name |-> name, value |-> 0, coords |-> name]
                                ELSE mesh.keys[i]]]
  ELSE [mesh EXCEPT !.keys = Append(mesh.keys, [name |-> name, value |-> 0, coords |-> name])]

RECURSIVE BakeMeshes(_, _, _, _, _)
\* "for mesh in meshes: bake_target(...)" from position i on.
BakeMeshes(objs, meshes, name, big, i) ==
  IF i > Len(meshes) THEN objs
  ELSE BakeMeshes([objs EXCEPT ![meshes[i]] = bake_target(name, big, objs[meshes[i]])],
                  meshes, name, big, i + 1)

RECURSIVE build_targets(_, _, _, _)
\* build_targets(mpfb, meshes, zip_path): the loop over zf.namelist() from
\* member j on.
build_targets(objs, meshes, zip, j) ==
  IF j > Len(zip) THEN objs
  ELSE IF zip[j].name[1] = "__MACOSX/" THEN build_targets(objs, meshes, zip, j + 1)
  ELSE IF Lower(zip[j].name[Len(zip[j].name)]) = ".target"
  THEN build_targets(BakeMeshes(objs, meshes, zip[j].name[Len(zip[j].name) - 1], zip[j].big, 1),
                     meshes, zip, j + 1)
  ELSE build_targets(objs, meshes, zip, j + 1)

\* OPERATIONS_OT_build_targets.poll
BuildTargetsPoll == SelectedMeshes(tobj, tselected) /= <<>>

\* What the operator reports and returns when it cancels.
Cancelled(text) ==
  [result |-> "CANCELLED", reports |-> << <<"ERROR", text>> >>, before |-> tobj]

\* OPERATIONS_OT_build_targets.execute
OpBuildTargets ==
  /\ tn < MaxCalls
  /\ tobj /= <<>>
  /\ IF FindMpfb(tmodules) = 0
     THEN tcall' = Cancelled("MPFB module not found.") /\ UNCHANGED tobj
     ELSE IF SelectedMeshes(tobj, tselected) = <<>>
     THEN tcall' = Cancelled("Select at least one mesh object") /\ UNCHANGED tobj
     ELSE IF ZipMissing(tfiles.fs, ZipPath(get_data_dir(tfiles.prefs, tfiles.fs)))
     THEN tcall' = Cancelled("The file 'talkinghead-targets.zip' not found") /\ UNCHANGED tobj
     ELSE /\ tobj' = build_targets(tobj, SelectedMeshes(tobj, tselected), tfiles.zip, 1)
          /\ tcall' = [result |-> "FINISHED",
                       reports |-> << <<"INFO", "Started building targets...">>,
                                      <<"INFO", "Targets built for all selected objects">> >>,
                       before |-> tobj]
  /\ tn' = tn + 1
  /\ UNCHANGED <<tmodules, tselected, tfiles>>
  /\ UNCHANGED <<sceneVars, applyVars, notTargets>>

----------------------------------------------------------------------------
\* The scenes of the "Build ARKit and Oculus" operator: a base mesh, a
\* piece of clothing and an armature; the file system is a set of paths with
\* their kind.

Bpy == [name |-> <<"bpy">>, services |-> FALSE]
Mpfb == [name |-> <<"bl_ext.", "MPFB">>, services |-> TRUE]
MpfbServices == [name |-> <<"bl_ext.", "MPFB", ".services">>, services |-> FALSE]

\* sys.modules
ModuleLists == {<<>>, <<Bpy>>, <<Bpy, Mpfb>>, <<MpfbServices>>, <<MpfbServices, Bpy, Mpfb>>}

OldKey(name) == [name |-> name, value |-> 50, coords |-> "old"]

TargetsScene(keys, mhclo) ==
  << [type |-> "MESH", basemesh |-> TRUE, mhclo |-> FALSE, keys |-> keys],
     [type |-> "MESH", basemesh |-> FALSE, mhclo |-> mhclo, keys |-> <<>>],
     [type |-> "ARMATURE", basemesh |-> FALSE, mhclo |-> FALSE, keys |-> <<>>] >>

Selections == {<<>>, <<3>>, <<1>>, <<1, 2>>, <<3, 2>>, <<1, 3, 2>>}

\* The members of talkinghead-targets.zip.
ZipMembers ==
  << [name |-> <<"__MACOSX/", "jawOpen", ".target">>, big |-> TRUE],
     [name |-> <<"targets/", "jawOpen", ".target">>, big |-> TRUE],
     [name |-> <<"targets/", "viseme_aa", ".TARGET">>, big |-> TRUE],
     [name |-> <<"targets/", "readme", ".txt">>, big |-> TRUE],
     [name |-> <<"targets/", "tiny", ".target">>, big |-> FALSE] >>

\* The file systems: the add-on directory, perhaps a data directory (or a
\* file of that name), and in each perhaps the archive (or a directory of
\* that name).
FileSystems ==
  {{<<get_addon_dir, "dir">>} \cup d \cup za \cup zd :
     d \in {{}, {<< <<"data">>, "dir">>}, {<< <<"data">>, "file">>}},
     za \in {{}, {<<ZipPath(get_addon_dir), "file">>}, {<<ZipPath(get_addon_dir), "dir">>}},
     zd \in {{}, {<<ZipPath(<<"data">>), "file">>}}}

InitTargets ==
  /\ \E keys \in {<<>>, <<OldKey("Basis"), OldKey("jawOpen")>>}, mhclo \in BOOLEAN :
       tobj = TargetsScene(keys, mhclo)
  /\ tselected \in Selections
  /\ tmodules \in ModuleLists
  /\ \E dp \in {<<>>, <<"data">>, <<"nowhere">>}, fs \in FileSystems :
       /\ (<< <<"data">>, "dir">> \notin fs => <<ZipPath(<<"data">>), "file">> \notin fs)
       /\ tfiles = [prefs |-> [data_path |-> dp], fs |-> fs, zip |-> ZipMembers]
  /\ tcall = [result |-> "none", reports |-> <<>>, before |-> <<>>]
  /\ tn = 0
  /\ SceneIdle
  /\ ApplyIdle
  /\ OthersIdleTargets

NextTargets == OpBuildTargets

SpecTargets == InitTargets /\ [][NextTargets]_vars

----------------------------------------------------------------------------
\* Properties of "Build ARKit and Oculus" (SpecTargets).

\* No loaded module is MPFB: none has "mpfb" in its lower-cased name and a
\* "services" attribute.
MpfbNotLoaded ==
  \A i \in 1..Len(tmodules) :
    ~(tmodules[i].services /\ \E k \in 1..Len(tmodules[i].name) : tmodules[i].name[k] \in {"mpfb", "MPFB"})

\* No selected object is a mesh.
NoMeshSelected == \A i \in 1..Len(tselected) : tobj[tselected[i]].type /= "MESH"

\* The data directory: the directory of the preferences if there is one,
\* else the add-on's directory.
DataDir ==
  IF tfiles.prefs.data_path /= <<>> /\ <<tfiles.prefs.data_path, "dir">> \in tfiles.fs
  THEN tfiles.prefs.data_path
  ELSE <<"addon">>

\* 'talkinghead-targets.zip' is not an existing file in the data directory.
NoArchive == <<DataDir \o <<"talkinghead-targets.zip">>, "file">> \notin tfiles.fs

\* C17: after a call of the operator: if MPFB is not loaded, no mesh is
\* among the selected objects or the archive is not a file of the data
\* directory, it returned CANCELLED with an error report and no object
\* changed; otherwise it returned FINISHED, every object that is not a
\* selected mesh is as it was, and every selected base mesh has a key at 0
\* for each target file of the archive that moves a vertex.
C17_CancelledOrBakedIntoSelectedMeshes ==
  tcall.result /= "none" =>
    IF MpfbNotLoaded \/ NoMeshSelected \/ NoArchive
    THEN /\ tcall.result = "CANCELLED"
         /\ \E i \in 1..Len(tcall.reports) : tcall.reports[i][1] = "ERROR"
         /\ tobj = tcall.before
    ELSE /\ tcall.result = "FINISHED"
         /\ \A o \in DOMAIN tobj :
              IF tobj[o].type = "MESH" /\ \E i \in 1..Len(tselected) : tselected[i] = o
              THEN tobj[o].basemesh =>
                     \A n \in {"jawOpen", "viseme_aa"} :
                       \E k \in 1..Len(tobj[o].keys) :
                         tobj[o].keys[k] = [name |-> n, value |-> 0, coords |-> n]
              ELSE tobj[o] = tcall.before[o]

\* The operator finished with an armature among the selected objects and
\* baked into both meshes, one of which had the key before.
C17_Witness ==
  /\ tcall.result = "FINISHED"
  /\ \E i \in 1..Len(tselected) : tobj[tselected[i]].type = "ARMATURE"
  /\ tobj[1] /= tcall.before[1] /\ tobj[2] /= tcall.before[2]
  /\ HasTarget(tcall.before[1].keys, "jawOpen")
  /\ tfiles.prefs.data_path = <<"data">> /\ DataDir = <<"data">>

====
